---------------------------- MODULE Spec2Model ----------------------------
(***************************************************************************)
(* Model of the secure session stack of secure-p2p-chat:                   *)
(*   src/network/session.rs  run_host_session, run_client_session,         *)
(*                           run_message_loop                              *)
(*   src/core/crypto.rs      ephemeral X25519, HKDF, AES-GCM wrapper       *)
(*   src/core/protocol.rs    ProtocolMessage codec                         *)
(*   src/app/chat_manager.rs the caller side of the three channels         *)
(*                                                                         *)
(* One host session and one client session run as two tasks joined by a    *)
(* TCP connection (two FIFO queues of frames).  Every await point of the   *)
(* session code is one step.  The network may alter a frame in flight.     *)
(***************************************************************************)
EXTENDS Integers, Sequences, FiniteSets, TLC

(* ------------------------------ bounds --------------------------------- *)
\* commands ChatManager enqueues on the command channels in one run
MaxCmds == 1
\* frames the network alters in one run
MaxTamper == 1
\* ephemeral secrets the RNG may draw
NumSecrets == 2
\* AES-GCM nonces the RNG may draw
NumNonces == 1
\* commands enqueued in one run of the message-loop specification
MaxBurst == 2
\* send_packet calls made on the framed byte stream
MaxFrames == 3

(* -------------------------- program constants -------------------------- *)
PROTOCOL_VERSION == 2
MIN_VERSION == 2
X25519_LEN == 32
AES_NONCE_SIZE == 12
AES_TAG_SIZE == 16
HKDF_INFO == "p2p-messenger-v2-forward-secrecy"

Host == "host"
Client == "client"
Sessions == {Host, Client}
Peer(s) == IF s = Host THEN Client ELSE Host

Secrets == 1..NumSecrets
Nonces == 0..(NumNonces - 1)

\* identity keys (PEM blobs) of the two endpoints and of a man in the middle
IdentityOf(s) == IF s = Host THEN 1 ELSE 2
AttackerIdentity == IdentityOf(Client) + 1
ValidPems == {1, 2, 3}

NoMsg == [type |-> "None"]
NoBytes == [tag |-> "None"]
NoKey == <<>>
NoVersion == 0 - 1
NoProbe == [fn |-> "none"]
NoIncoming == [state |-> "none", tmp_path |-> <<>>, received |-> 0, expected |-> 0,
               filename |-> <<>>, final_path |-> <<>>, appends |-> 0,
               failed |-> FALSE]
\* the tasks that receive a file at the same time, named by the Uuid of their
\* temp file
Receivers == {"u1", "u2"}

NoInvalid == [hdr |-> 0, of |-> 0, left |-> 0]

(* ------------------------- crypto primitives --------------------------- *)
\* X25519 scalar multiplication, abstracted as exponentiation in Z_23^*
X25519(k, u) == (u ^ k) % 23

\* the X25519 base point (generator 5 of Z_23^*)
X25519_BASEPOINT == 5

\* generate_ephemeral_keypair: the public half of secret k
X25519PublicKey(k) == X25519(k, X25519_BASEPOINT)

\* HKDF-SHA256 (salt None) expand with info: a one-way function of both
Hkdf(ikm, info) == <<ikm, info>>

\* a variant that mixes the own public key instead of the peer's
derive_session_key_OwnPublic(our_secret, their_public, info) ==
    Hkdf(X25519(our_secret, X25519PublicKey(our_secret)), info)

\* derive_session_key: X25519 shared secret, then HKDF with the context
derive_session_key(our_secret, their_public, info) ==
    Hkdf(X25519(our_secret, their_public), info)

\* a variant that accepts a key of any length
parse_x25519_public_AnyLength(bytes) == bytes.len >= 0

\* parse_x25519_public: Ok iff exactly 32 bytes
parse_x25519_public(bytes) == bytes.len = X25519_LEN

\* AES-256-GCM of the aes_gcm crate: ciphertext and tag are functions of
\* (key, nonce, plaintext) that cannot be produced without the key
GcmCt(key, nonce, pt) == [k |-> key, n |-> nonce, pt |-> pt, flip |-> FALSE]
GcmTag(key, nonce, ct) == [k |-> key, n |-> nonce, ct |-> ct, flip |-> FALSE]

\* a variant whose output lacks the nonce
encrypt_NoNonce(key, nonce, pt) ==
    [tag   |-> "AEAD",
     len   |-> pt.len + AES_TAG_SIZE,
     nonce |-> nonce,
     ct    |-> GcmCt(key, nonce, pt),
     mac   |-> GcmTag(key, nonce, GcmCt(key, nonce, pt))]

\* AesCipher::encrypt: nonce(12) || ciphertext || tag(16)
encrypt(key, nonce, pt) ==
    [tag   |-> "AEAD",
     len   |-> AES_NONCE_SIZE + pt.len + AES_TAG_SIZE,
     nonce |-> nonce,
     ct    |-> GcmCt(key, nonce, pt),
     mac   |-> GcmTag(key, nonce, GcmCt(key, nonce, pt))]

\* a variant that returns the plaintext without verifying the tag
decrypt_Unverified(key, f) ==
    IF f.tag # "AEAD" THEN NoBytes
    ELSE IF f.len < AES_NONCE_SIZE + AES_TAG_SIZE THEN NoBytes
    ELSE f.ct.pt

\* AesCipher::decrypt: None (NoBytes) if shorter than 28 bytes or the tag fails
decrypt(key, f) ==
    IF f.tag # "AEAD" THEN NoBytes
    ELSE IF f.len < AES_NONCE_SIZE + AES_TAG_SIZE THEN NoBytes
    ELSE IF f.mac = GcmTag(key, f.nonce, f.ct) THEN f.ct.pt
    ELSE NoBytes

(* ---------------------------- byte strings ----------------------------- *)
\* a byte string is a sequence of runs [n |-> count, b |-> byte], so that a
\* payload of 8 MiB is one run
RECURSIVE RunLen(_)
RunLen(r) == IF r = <<>> THEN 0 ELSE Head(r).n + RunLen(Tail(r))

\* the canonical form: no empty run, no two adjacent runs of the same byte
RECURSIVE Norm(_)
Norm(r) ==
    IF r = <<>> THEN <<>>
    ELSE IF Head(r).n = 0 THEN Norm(Tail(r))
    ELSE LET rest == Norm(Tail(r)) IN
         IF rest # <<>> /\ Head(rest).b = Head(r).b
         THEN <<[n |-> Head(r).n + Head(rest).n, b |-> Head(r).b]>> \o Tail(rest)
         ELSE <<Head(r)>> \o rest

Cat(x, y) == Norm(x \o y)

\* the first k bytes of r, and r without them
RECURSIVE TakeBytes(_, _)
TakeBytes(r, k) ==
    IF k = 0 \/ r = <<>> THEN <<>>
    ELSE IF Head(r).n <= k THEN <<Head(r)>> \o TakeBytes(Tail(r), k - Head(r).n)
    ELSE <<[n |-> k, b |-> Head(r).b]>>

RECURSIVE DropBytes(_, _)
DropBytes(r, k) ==
    IF k = 0 \/ r = <<>> THEN r
    ELSE IF Head(r).n <= k THEN DropBytes(Tail(r), k - Head(r).n)
    ELSE <<[n |-> Head(r).n - k, b |-> Head(r).b]>> \o Tail(r)

\* a short byte string as a sequence of bytes, and back
RECURSIVE Expand(_)
Expand(r) ==
    IF r = <<>> THEN <<>>
    ELSE IF Head(r).n = 0 THEN Expand(Tail(r))
    ELSE <<Head(r).b>> \o Expand(<<[Head(r) EXCEPT !.n = @ - 1]>> \o Tail(r))

FromBytes(bs) == Norm([i \in 1..Len(bs) |-> [n |-> 1, b |-> bs[i]]])

\* n bytes of value b
Fill(n, b) == Norm(<<[n |-> n, b |-> b]>>)

(* ------------------------------ codec ---------------------------------- *)
\* ProtocolMessage values used by the session
MsgVersion(v) == [type |-> "Version", version |-> v]
MsgEphemeralKey(pk) == [type |-> "EphemeralKey", public_key |-> pk]
MsgText(t, ts) == [type |-> "Text", text |-> t, timestamp |-> ts]
MsgPing == [type |-> "Ping"]
\* the longest filename drawn
MaxName == 3

\* the most chunks handed to one receive-side transfer
MaxChunks == 2
\* the most files that others have put into the destination directory
MaxExisting == 2

\* the most session events ChatManager handles
MaxEvents == 4
\* the most transfers a peer announces
MaxTransfers == 1

\* the most short reads of the file being sent
MaxShortReads == 2

\* the other variants; a String is a sequence of characters, a Vec<u8> a byte
\* string
MsgFileMeta(filename, size) == [type |-> "FileMeta", filename |-> filename, size |-> size]
MsgFileChunk(chunk, seq) == [type |-> "FileChunk", chunk |-> chunk, seq |-> seq]
MsgFileEnd == [type |-> "FileEnd"]
MsgTypingStart == [type |-> "TypingStart"]
MsgTypingStop == [type |-> "TypingStop"]

\* format!("{}", n) of an unsigned integer
DigitChars == <<"0", "1", "2", "3", "4", "5", "6", "7", "8", "9">>

RECURSIVE Decimal(_)
Decimal(n) ==
    IF n < 10 THEN <<DigitChars[n + 1]>>
    ELSE Decimal(n \div 10) \o <<DigitChars[(n % 10) + 1]>>

\* str::parse::<u64>: an optional '+', then one digit or more; -1 is Err
DigitValue(c) == CHOOSE d \in 0..9 : DigitChars[d + 1] = c

RECURSIVE DigitsValue(_, _)
DigitsValue(cs, acc) ==
    IF cs = <<>> THEN acc ELSE DigitsValue(Tail(cs), acc * 10 + DigitValue(Head(cs)))

ParseU64(cs) ==
    LET ds == IF cs # <<>> /\ Head(cs) = "+" THEN Tail(cs) ELSE cs IN
    IF ds # <<>> /\ \A i \in 1..Len(ds) : \E d \in 0..9 : DigitChars[d + 1] = ds[i]
    THEN DigitsValue(ds, 0)
    ELSE 0 - 1

\* str::splitn(3, '|') of "FILE_META|" followed by body: the items after the
\* first one ("FILE_META"); the last item keeps every further '|'
SplitMeta(body) ==
    IF \E i \in 1..Len(body) : body[i] = "|"
    THEN LET k == CHOOSE i \in 1..Len(body) :
                    body[i] = "|" /\ \A j \in 1..(i - 1) : body[j] # "|"
         IN  <<SubSeq(body, 1, k - 1), SubSeq(body, k + 1, Len(body))>>
    ELSE <<body>>

\* current_timestamp_millis() at the receiver
NowMillis == 7

\* ProtocolMessage::to_plain_bytes (len = number of bytes produced)
to_plain_bytes(m) ==
    CASE m.type = "Version"      -> [tag |-> "VERSION:", len |-> 8 + 1, version |-> m.version]
      [] m.type = "EphemeralKey" -> [tag |-> "EPHEMERAL_KEY:", len |-> 14 + m.public_key.len,
                                     public_key |-> m.public_key]
      [] m.type = "Text"         -> [tag |-> "TEXT:", len |-> 5 + Len(m.text), text |-> m.text]
      [] m.type = "FileMeta"     ->
            LET body == m.filename \o <<"|">> \o Decimal(m.size) IN
            [tag |-> "FILE_META|", len |-> 10 + Len(body), body |-> body]
      [] m.type = "FileChunk"    -> [tag |-> "FILE_CHUNK:", len |-> 11 + RunLen(m.chunk),
                                     chunk |-> m.chunk]
      [] m.type = "FileEnd"      -> [tag |-> "FILE_END:", len |-> 9]
      [] m.type = "Ping"         -> [tag |-> "PING", len |-> 4]
      [] m.type = "TypingStart"  -> [tag |-> "TYPING_START", len |-> 12]
      [] m.type = "TypingStop"   -> [tag |-> "TYPING_STOP", len |-> 11]

\* a variant that takes "PING" followed by anything for a Ping
from_plain_bytes_PrefixOnly(b) ==
    CASE b.tag = "VERSION:" ->
            IF b.version \in 0..255 THEN MsgVersion(b.version) ELSE NoMsg
      [] b.tag = "EPHEMERAL_KEY:" -> MsgEphemeralKey(b.public_key)
      [] b.tag = "TEXT:" -> MsgText(b.text, NowMillis)
      [] b.tag = "FILE_META|" ->
            LET parts == SplitMeta(b.body) IN
            IF Len(parts) = 2 /\ ParseU64(parts[2]) >= 0
            THEN MsgFileMeta(parts[1], ParseU64(parts[2]))
            ELSE NoMsg
      [] b.tag = "FILE_CHUNK:" -> MsgFileChunk(b.chunk, 0)
      [] b.tag = "FILE_END:" -> IF b.len = 9 THEN MsgFileEnd ELSE NoMsg
      [] b.tag = "PING" -> MsgPing
      [] b.tag = "TYPING_START" -> IF b.len = 12 THEN MsgTypingStart ELSE NoMsg
      [] b.tag = "TYPING_STOP" -> IF b.len = 11 THEN MsgTypingStop ELSE NoMsg
      [] OTHER -> NoMsg

\* ProtocolMessage::from_plain_bytes; NoMsg is None
from_plain_bytes(b) ==
    CASE b.tag = "VERSION:" ->
            IF b.version \in 0..255 THEN MsgVersion(b.version) ELSE NoMsg
      [] b.tag = "EPHEMERAL_KEY:" -> MsgEphemeralKey(b.public_key)
      [] b.tag = "TEXT:" -> MsgText(b.text, NowMillis)
      [] b.tag = "FILE_META|" ->
            LET parts == SplitMeta(b.body) IN
            IF Len(parts) = 2 /\ ParseU64(parts[2]) >= 0
            THEN MsgFileMeta(parts[1], ParseU64(parts[2]))
            ELSE NoMsg
      [] b.tag = "FILE_CHUNK:" -> MsgFileChunk(b.chunk, 0)
      [] b.tag = "FILE_END:" -> IF b.len = 9 THEN MsgFileEnd ELSE NoMsg
      [] b.tag = "PING" -> IF b.len = 4 THEN MsgPing ELSE NoMsg
      [] b.tag = "TYPING_START" -> IF b.len = 12 THEN MsgTypingStart ELSE NoMsg
      [] b.tag = "TYPING_STOP" -> IF b.len = 11 THEN MsgTypingStop ELSE NoMsg
      [] OTHER -> NoMsg

\* the bytes "VERSION:" followed by a decimal u8
IsVersionFrame(f) == f.tag = "VERSION:" /\ f.version \in 0..255

\* the bytes "EPHEMERAL_KEY:" followed by exactly 32 key bytes
IsEphemeralKeyFrame(f) == f.tag = "EPHEMERAL_KEY:" /\ f.public_key.len = 32

\* pem_encode_public of an identity key
pem_encode_public(id) == [tag |-> "PEM", len |-> 451, pem |-> id]

\* String::from_utf8 + pem_decode_public succeed
pem_decode_public(b) == b.tag = "PEM" /\ b.pem \in ValidPems

\* fingerprint_pubkey: SHA-256 of the PEM bytes
fingerprint_pubkey(b) == <<"sha256", b.pem>>

(* ------------------------------- paths --------------------------------- *)
\* a path is a sequence of components, a component a sequence of characters;
\* the process runs in CwdPath and is configured with the relative
\* directories "Downloads" and "temp"
RootDir == <<"/">>
ParentDir == <<".", ".">>
CurDir == <<".">>
CwdPath == <<RootDir, <<"home">>>>
DownloadDir == CwdPath \o <<<<"Downloads">>>>
TempDir == CwdPath \o <<<<"temp">>>>

\* the characters sanitize_filename replaces
Forbidden == {"/", "\\", ":", "*", "?", "\"", "<", ">", "|"}

\* util::sanitize_filename
sanitize_filename(name) ==
    [i \in 1..(IF Len(name) < 255 THEN Len(name) ELSE 255) |->
        IF name[i] \in Forbidden THEN "_" ELSE name[i]]

\* Path::components of a string: split at '/', without empty and "." items
RECURSIVE SplitSlash(_, _)
SplitSlash(cs, cur) ==
    IF cs = <<>> THEN <<cur>>
    ELSE IF Head(cs) = "/" THEN <<cur>> \o SplitSlash(Tail(cs), <<>>)
    ELSE SplitSlash(Tail(cs), Append(cur, Head(cs)))

Components(cs) ==
    SelectSeq(SplitSlash(cs, <<>>), LAMBDA c : c # <<>> /\ c # CurDir)

\* Path::join: an absolute argument replaces the base
Join(base, cs) ==
    IF cs # <<>> /\ Head(cs) = "/"
    THEN <<RootDir>> \o Components(cs)
    ELSE base \o Components(cs)

\* Path::parent().unwrap_or(Path::new("."))
Parent(p) == IF Len(p) > 1 THEN SubSeq(p, 1, Len(p) - 1) ELSE CwdPath

\* Path::file_name is Some: the path does not end in the root or in ".."
HasFileName(p) == p # <<>> /\ p[Len(p)] \notin {RootDir, ParentDir}

\* the place a path names once the operating system has followed its ".."
RECURSIVE Resolve(_, _)
Resolve(p, acc) ==
    IF p = <<>> THEN acc
    ELSE IF Head(p) = ParentDir
    THEN Resolve(Tail(p), IF Len(acc) > 1 THEN SubSeq(acc, 1, Len(acc) - 1) ELSE acc)
    ELSE Resolve(Tail(p), Append(acc, Head(p)))

Real(p) == Resolve(p, <<>>)

IsPrefix(d, p) == Len(d) <= Len(p) /\ SubSeq(p, 1, Len(d)) = d

\* a variant that finds nothing
ExistsIn_Never(disk, p) == FALSE

\* the file or directory exists: files are in fs, directories are those on
\* the way to a file or to a configured directory (create_dir_all)
ExistsIn(disk, p) ==
    \/ Real(p) \in DOMAIN disk
    \/ \E q \in DOMAIN disk \cup {DownloadDir, TempDir} : IsPrefix(Real(p), q)

\* File::create / write_all / remove_file / rename on the file system
WriteFile(disk, p, data) == (Real(p) :> data) @@ disk
RemoveFile(disk, p) == [q \in DOMAIN disk \ {Real(p)} |-> disk[q]]
RenameFile(disk, from, to) ==
    IF Real(from) \in DOMAIN disk
    THEN WriteFile(RemoveFile(disk, from), to, disk[Real(from)])
    ELSE disk

\* the index of the last '.' of a file name, 0 if there is none
LastDot(cs) ==
    IF \E i \in 1..Len(cs) : cs[i] = "."
    THEN CHOOSE i \in 1..Len(cs) : cs[i] = "." /\ \A j \in (i + 1)..Len(cs) : cs[j] # "."
    ELSE 0

\* Path::new(name).file_stem().unwrap_or("file") of a name without '/'
file_stem(cs) ==
    IF cs = <<>> \/ cs = CurDir \/ cs = ParentDir THEN <<"file">>
    ELSE IF LastDot(cs) <= 1 THEN cs
    ELSE SubSeq(cs, 1, LastDot(cs) - 1)

\* Path::new(name).extension().unwrap_or("")
extension(cs) ==
    IF cs = <<>> \/ cs = CurDir \/ cs = ParentDir THEN <<>>
    ELSE IF LastDot(cs) <= 1 THEN <<>>
    ELSE SubSeq(cs, LastDot(cs) + 1, Len(cs))

\* format!("tmp_{}_{}", Uuid::new_v4(), safe_filename)
TmpName(uuid, safe) == <<"tmp_", uuid, "_">> \o safe

(* ------------------------------ framing -------------------------------- *)
MAX_PACKET_SIZE == 8 * 1024 * 1024
FILE_CHUNK_SIZE == 64 * 1024

\* a variant that writes the length little-endian
to_be_bytes_LittleEndian(v) ==
    <<v % 256, (v \div 256) % 256, (v \div 65536) % 256, (v \div 16777216) % 256>>

\* (len as u32).to_be_bytes()
\* (the four low-order bytes of len, most significant first)
to_be_bytes(v) ==
    <<(v \div 16777216) % 256, (v \div 65536) % 256, (v \div 256) % 256, v % 256>>

\* u32::from_be_bytes(header) as usize; a value of 2^31 or more (first byte
\* 128 or more) stands as 2^31 - 1, which is as far above the limit
from_be_bytes(h) ==
    IF h[1] >= 128 THEN 2147483647
    ELSE h[1] * 16777216 + h[2] * 65536 + h[3] * 256 + h[4]

\* a variant of the size check that is off by one
SendTooLarge_AtLimit(n) == n >= MAX_PACKET_SIZE

\* send_packet: len > MAX_PACKET_SIZE
SendTooLarge(n) == n > MAX_PACKET_SIZE

\* recv_packet: len > MAX_PACKET_SIZE
RecvTooLarge(n) == n > MAX_PACKET_SIZE

(* ------------------------------- state --------------------------------- *)
VARIABLES
    pc,          \* [Sessions -> step] the await point each session task is at
    connected,   \* the client's TCP connect has reached the host's listener
    wire,        \* [Sessions -> Seq(frame)] frames in flight towards a session
    sockOpen,    \* [Sessions -> BOOLEAN] the session still owns its stream
    events,      \* [Sessions -> Seq(event)] what was sent on to_app_tx
    cmds,        \* [Sessions -> Seq(msg)] from_app_rx: queued commands
    confirm,     \* [Sessions -> Seq(BOOLEAN)] fingerprint_confirm_senders[chat]
    appAlive,    \* [Sessions -> BOOLEAN] ChatManager still holds the chat's channels
    peerVersion, \* [Sessions -> version read from the peer | NoVersion]
    peerFp,      \* [Sessions -> fingerprint of the peer identity | <<>>]
    ephSecret,   \* [Sessions -> own ephemeral secret | 0]
    peerEph,     \* [Sessions -> parsed peer ephemeral public | 0]
    aesKey,      \* [Sessions -> session key | NoKey]
    sent,        \* history: [Sessions -> Seq(tag)] frames written to the socket
    rcvd,        \* history: [Sessions -> Seq(tag)] frames returned by recv_packet
    delivered,   \* history: [Sessions -> Seq(arrival)] frames that gave MessageReceived
    derives,     \* history: [Sessions -> Nat] calls of derive_session_key
    undecrypted, \* history: [Sessions -> Nat] frames cipher.decrypt gave None for
    cmdCount,    \* history: [Sessions -> Nat] commands enqueued so far
    tampers,     \* number of frames the network may still alter
    hsTampered,  \* history: a plaintext handshake frame was altered
    hdrTampers,  \* number of length headers the network may still alter
    invalid,     \* history: [Sessions -> [hdr, of, left]] the header value
                 \* recv_packet failed on, the payload bytes that followed
                 \* it and how many of them are still unread
    cmdOpen,     \* [Sessions -> BOOLEAN] a sender of the command channel exists
    branchOff,   \* [Sessions -> BOOLEAN] select! disabled the command branch
    enq,         \* history: [Sessions -> Seq(msg)] commands in enqueue order
    outbox,      \* history: [Sessions -> Seq(frame)] frames the loop wrote
    malformed,   \* history: [Sessions -> BOOLEAN] a handshake frame was not
                 \* the Version / 32-byte EphemeralKey that was expected
    deadlinePassed, \* [Sessions -> BOOLEAN] HANDSHAKE_TIMEOUT_SECS have elapsed
    cancelled,   \* history: [Sessions -> BOOLEAN] the task was dropped
    \* framing (src/core/framing.rs) over one direction of a byte stream
    stream,      \* bytes written and not yet read, as runs of equal bytes
    calls,       \* history: Seq of send_packet calls [payload, res, wrote]:
                 \* res is "Ok", "InvalidInput" or "pending", wrote the
                 \* number of bytes the call has written
    wRest,       \* bytes send_packet has still to write in write_all(payload)
    rpc,         \* where recv_packet is: "header", "payload" or "err"
    rBuf,        \* bytes read_exact has collected so far
    rNeed,       \* the length `len` the header announced
    got,         \* history: Seq of payloads recv_packet returned
    \* one call of a pure function and what it returned
    probe,
    \* file transfer (src/transfer, src/app/chat_manager.rs)
    fs,          \* the file system: [path -> content] of the files that exist
    made,        \* history: set of [owner, path, data]: the files created, by
                 \* a transfer (owner is its uuid) or by others ("env")
    incoming,    \* the IncomingFile of receiver.rs and what became of it
    incomingOf,  \* [task -> IncomingFile] of the tasks that receive at once
    \* ChatManager, receive side of one chat
    incoming_files,   \* [transfer id -> IncomingFileSync]
    active_transfers, \* [transfer id -> FileTransferState]
    toasts,      \* history: Seq of the toasts added
    chat_files,  \* Seq of the File messages pushed to the chat
    fed,         \* history: Seq of the session events handled
    \* ChatManager::send_file
    sendPc,      \* "idle", "chunks" (in the read loop), "ok" or "err"
    srcFile,     \* the content of the file being sent
    sendPos,     \* the number of bytes read from it
    sendOut      \* history: Seq of the messages put on from_app_tx

vars == <<pc, connected, wire, sockOpen, events, cmds, confirm, appAlive,
          peerVersion, peerFp, ephSecret, peerEph, aesKey,
          sent, rcvd, delivered, derives, undecrypted, cmdCount, tampers, hsTampered,
          hdrTampers, invalid,
          cmdOpen, branchOff, enq, outbox, malformed, deadlinePassed, cancelled,
          stream, calls, wRest, rpc, rBuf, rNeed, got, probe,
          fs, made, incoming, incomingOf,
          incoming_files, active_transfers, toasts, chat_files, fed,
          sendPc, srcFile, sendPos, sendOut>>

sessVars == <<peerVersion, peerFp, ephSecret, peerEph, aesKey>>
histVars == <<delivered, derives, undecrypted>>
netVars == <<tampers, hsTampered, hdrTampers, invalid>>
appVars == <<cmds, confirm, appAlive, cmdCount>>
chanVars == <<cmdOpen, branchOff>>
cmdHist == <<enq, outbox>>
timeVars == <<deadlinePassed, cancelled>>
frameVars == <<stream, calls, wRest, rpc, rBuf, rNeed, got>>
probeVars == <<probe>>
raceVars == <<incomingOf>>
\* what the session tasks never touch
diskVars == <<fs, made>>
mgrVars == <<incoming_files, active_transfers, toasts, chat_files, fed>>
sendVars == <<sendPc, srcFile, sendPos, sendOut>>
xferVars == <<diskVars, incoming, raceVars, mgrVars, sendVars>>
idleVars == <<frameVars, probeVars, xferVars>>
sessionVars == <<pc, connected, wire, sockOpen, events, sent, rcvd,
                 sessVars, histVars, netVars, appVars, chanVars, cmdHist,
                 malformed, timeVars>>

Event(name) == [ev |-> name, msg |-> NoMsg]
EvMessageReceived(m) == [ev |-> "MessageReceived", msg |-> m]

HasEvent(s, name) == \E i \in 1..Len(events[s]) : events[s][i].ev = name

(* ------------------ control flow of the two session tasks -------------- *)
\* a variant in which the host reads the peer's Version before sending its own
HostFlow_ReadsFirst ==
    [bind |-> "accept", accept |-> "recvVer", recvVer |-> "sendVer",
     sendVer |-> "sendId", sendId |-> "recvId", recvId |-> "emitFp",
     emitFp |-> "sleep", sleep |-> "genEph", genEph |-> "sendEph",
     sendEph |-> "recvEph", recvEph |-> "derive", derive |-> "ready",
     ready |-> "loop"]

\* run_host_session: the await points in program order
HostFlow ==
    [bind |-> "accept", accept |-> "sendVer", sendVer |-> "recvVer",
     recvVer |-> "sendId", sendId |-> "recvId", recvId |-> "emitFp",
     emitFp |-> "sleep", sleep |-> "genEph", genEph |-> "sendEph",
     sendEph |-> "recvEph", recvEph |-> "derive", derive |-> "ready",
     ready |-> "loop"]

\* a variant in which the client sends its Version without waiting for the host's
ClientFlow_SpeaksFirst ==
    [connect |-> "sendVer", sendVer |-> "recvVer", recvVer |-> "recvId",
     recvId |-> "emitFp", emitFp |-> "sleep", sleep |-> "sendId",
     sendId |-> "recvEph", recvEph |-> "genEph", genEph |-> "sendEph",
     sendEph |-> "derive", derive |-> "ready", ready |-> "loop"]

\* a variant in which the client sends its identity before it shows the
\* host's fingerprint
ClientFlow_IdentityFirst ==
    [connect |-> "recvVer", recvVer |-> "sendVer", sendVer |-> "recvId",
     recvId |-> "sendId", sendId |-> "emitFp", emitFp |-> "sleep",
     sleep |-> "recvEph", recvEph |-> "genEph", genEph |-> "sendEph",
     sendEph |-> "derive", derive |-> "ready", ready |-> "loop"]

\* run_client_session: the await points in program order
ClientFlow ==
    [connect |-> "recvVer", recvVer |-> "sendVer", sendVer |-> "recvId",
     recvId |-> "emitFp", emitFp |-> "sleep", sleep |-> "sendId",
     sendId |-> "recvEph", recvEph |-> "genEph", genEph |-> "sendEph",
     sendEph |-> "derive", derive |-> "ready", ready |-> "loop"]

Flow(s) == IF s = Host THEN HostFlow ELSE ClientFlow
NextPc(s) == Flow(s)[pc[s]]

\* the state after ChatManager::start_host / connect_to_host spawned the two
\* tasks, on a network that may alter up to `budget` frames
\* budget frames and hdrBudget length headers may be altered in transit
InitNet(budget, hdrBudget) ==
    /\ pc = [s \in Sessions |-> IF s = Host THEN "bind" ELSE "connect"]
    /\ connected = FALSE
    /\ wire = [s \in Sessions |-> <<>>]
    /\ sockOpen = [s \in Sessions |-> TRUE]
    /\ events = [s \in Sessions |-> <<>>]
    /\ cmds = [s \in Sessions |-> <<>>]
    /\ confirm = [s \in Sessions |-> <<>>]
    /\ appAlive = [s \in Sessions |-> TRUE]
    /\ peerVersion = [s \in Sessions |-> NoVersion]
    /\ peerFp = [s \in Sessions |-> <<>>]
    /\ ephSecret = [s \in Sessions |-> 0]
    /\ peerEph = [s \in Sessions |-> 0]
    /\ aesKey = [s \in Sessions |-> NoKey]
    /\ sent = [s \in Sessions |-> <<>>]
    /\ rcvd = [s \in Sessions |-> <<>>]
    /\ delivered = [s \in Sessions |-> <<>>]
    /\ derives = [s \in Sessions |-> 0]
    /\ undecrypted = [s \in Sessions |-> 0]
    /\ cmdCount = [s \in Sessions |-> 0]
    /\ tampers = budget
    /\ hsTampered = FALSE
    /\ hdrTampers = hdrBudget
    /\ invalid = [s \in Sessions |-> NoInvalid]
    /\ cmdOpen = [s \in Sessions |-> TRUE]
    /\ branchOff = [s \in Sessions |-> FALSE]
    /\ enq = [s \in Sessions |-> <<>>]
    /\ outbox = [s \in Sessions |-> <<>>]
    /\ malformed = [s \in Sessions |-> FALSE]
    /\ deadlinePassed = [s \in Sessions |-> FALSE]
    /\ cancelled = [s \in Sessions |-> FALSE]
    /\ stream = <<>>
    /\ calls = <<>>
    /\ wRest = <<>>
    /\ rpc = "header"
    /\ rBuf = <<>>
    /\ rNeed = 0
    /\ got = <<>>
    /\ probe = NoProbe
    /\ fs = <<>>
    /\ made = {}
    /\ incoming = NoIncoming
    /\ incomingOf = [t \in Receivers |-> NoIncoming]
    /\ incoming_files = <<>>
    /\ active_transfers = <<>>
    /\ toasts = <<>>
    /\ chat_files = <<>>
    /\ fed = <<>>
    /\ sendPc = "idle"
    /\ srcFile = <<>>
    /\ sendPos = 0
    /\ sendOut = <<>>

InitWith(budget) == InitNet(budget, 0)

Init == InitWith(MaxTamper)

(* ----------------------- building blocks of a step --------------------- *)
\* `return Err(..)` / `?`: the task ends, the stream is dropped, no event is sent
ReturnErr(s) ==
    /\ pc' = [pc EXCEPT ![s] = "done"]
    /\ sockOpen' = [sockOpen EXCEPT ![s] = FALSE]

Goto(s, step) ==
    /\ pc' = [pc EXCEPT ![s] = step]
    /\ sockOpen' = sockOpen

\* to_app_tx.send(e).map_err(..)? followed by the next await point
EmitThen(s, e, step) ==
    IF appAlive[s]
    THEN /\ events' = [events EXCEPT ![s] = Append(@, e)]
         /\ Goto(s, step)
    ELSE /\ events' = events
         /\ ReturnErr(s)

\* outcomes of writing to the socket: a write to a stream whose peer is gone
\* may still be buffered (Ok) or fail
SendOutcomes(s) == IF sockOpen[Peer(s)] THEN {TRUE} ELSE {TRUE, FALSE}

\* the effect of a successful send_packet(stream, f) by s
Transmit(s, f) ==
    /\ wire' = [wire EXCEPT ![Peer(s)] = IF sockOpen[Peer(s)] THEN Append(@, f) ELSE @]
    /\ sent' = [sent EXCEPT ![s] = Append(@, f.tag)]

\* a variant that never sees the end of the stream
CanRecv_DataOnly(s) == wire[s] # <<>>

\* recv_packet(stream) can complete: a frame is there, or the peer hung up
CanRecv(s) == wire[s] # <<>> \/ ~sockOpen[Peer(s)]
RecvOk(s) == wire[s] # <<>>

\* versions an altered Version frame may announce
TamperVersions == {1, 3, 256}

\* what a frame altered in transit may look like
TamperOf(f) ==
    CASE f.tag = "VERSION:" ->
            {[f EXCEPT !.version = v] : v \in TamperVersions \ {f.version}}
      [] f.tag = "PEM" ->
            {[f EXCEPT !.pem = p] : p \in {AttackerIdentity, 0} \ {f.pem}}
      [] f.tag = "EPHEMERAL_KEY:" ->
            {[f EXCEPT !.public_key.len = 16, !.len = 14 + 16],
             [f EXCEPT !.public_key.val = (@ % 22) + 1],
             [f EXCEPT !.tag = "PING", !.len = 4]}
      [] f.tag = "AEAD" ->
            {[f EXCEPT !.nonce = @ + 1],
             [f EXCEPT !.ct.flip = ~@],
             [f EXCEPT !.mac.flip = ~@],
             [f EXCEPT !.len = AES_NONCE_SIZE + AES_TAG_SIZE - 1]}
      [] OTHER -> {}

\* length headers an altered frame may carry
TamperHeaders == {MAX_PACKET_SIZE + 1, 16 * 1024 * 1024}

\* a variant that hands out the newest frame in the stream
Arrivals_Newest(s) ==
    {[frame |-> wire[s][Len(wire[s])], altered |-> FALSE,
      hdr |-> wire[s][Len(wire[s])].len]}

\* what recv_packet may find for the frame at the head of the stream: the
\* frame the peer wrote, or (the network is not trusted) an altered one; hdr is
\* the value of the 4-byte length header, which may be altered as well
Arrivals(s) ==
    {[frame |-> Head(wire[s]), altered |-> FALSE, hdr |-> Head(wire[s]).len]} \cup
    (IF tampers > 0
     THEN {[frame |-> g, altered |-> TRUE, hdr |-> g.len] :
                g \in TamperOf(Head(wire[s]))}
     ELSE {}) \cup
    (IF hdrTampers > 0
     THEN {[frame |-> Head(wire[s]), altered |-> TRUE, hdr |-> h] :
                h \in TamperHeaders}
     ELSE {})

\* the effect of recv_packet returning Ok(a.frame)
Consume(s, a) ==
    /\ wire' = [wire EXCEPT ![s] = Tail(@)]
    /\ rcvd' = [rcvd EXCEPT ![s] = Append(@, a.frame.tag)]
    /\ tampers' = IF a.altered THEN tampers - 1 ELSE tampers
    /\ hsTampered' = (hsTampered \/ (a.altered /\ a.frame.tag # "AEAD"))
    /\ UNCHANGED <<hdrTampers, invalid>>

\* a variant that checks the length only after the payload was read
RecvInvalidData_AfterPayload(s, a) ==
    /\ wire' = [wire EXCEPT ![s] = Tail(@)]
    /\ invalid' = [invalid EXCEPT ![s] =
                     [hdr |-> a.hdr, of |-> a.frame.len, left |-> 0]]
    /\ rcvd' = rcvd
    /\ hdrTampers' = hdrTampers - 1
    /\ hsTampered' = (hsTampered \/ a.frame.tag # "AEAD")
    /\ tampers' = tampers

\* recv_packet returned Err(InvalidData): the header was read, its value is
\* above MAX_PACKET_SIZE, and the `len` payload bytes stay in the stream
RecvInvalidData(s, a) ==
    /\ wire' = wire
    /\ invalid' = [invalid EXCEPT ![s] =
                     [hdr |-> a.hdr, of |-> a.frame.len, left |-> a.frame.len]]
    /\ rcvd' = rcvd
    /\ hdrTampers' = hdrTampers - 1
    /\ hsTampered' = (hsTampered \/ a.frame.tag # "AEAD")
    /\ tampers' = tampers

\* recv_packet returned Err (EOF)
RecvErr(s) ==
    /\ ReturnErr(s)
    /\ UNCHANGED <<wire, rcvd, netVars>>

\* leaving run_message_loop by `break`: Disconnected is sent, the task returns
\* and the stream is dropped
LeaveLoop(s) ==
    /\ events' = [events EXCEPT ![s] =
                    IF appAlive[s] THEN Append(@, Event("Disconnected")) ELSE @]
    /\ ReturnErr(s)

(* ------------------------- connection set-up --------------------------- *)
\* host steps 1: TcpListener::bind, send Listening
Bind ==
    /\ pc[Host] = "bind"
    /\ EmitThen(Host, Event("Listening"), NextPc(Host))
    /\ UNCHANGED <<connected, wire, sent, rcvd>>
    /\ UNCHANGED <<sessVars, histVars, netVars, appVars>>
    /\ UNCHANGED <<chanVars, cmdHist, malformed, timeVars, idleVars>>

\* client step 1: TcpStream::connect succeeds, send Connected
Connect ==
    /\ pc[Client] = "connect"
    /\ pc[Host] = "accept"
    /\ ~connected
    /\ connected' = TRUE
    /\ EmitThen(Client, Event("Connected"), NextPc(Client))
    /\ UNCHANGED <<wire, sent, rcvd>>
    /\ UNCHANGED <<sessVars, histVars, netVars, appVars>>
    /\ UNCHANGED <<chanVars, cmdHist, malformed, timeVars, idleVars>>

\* client step 1: TcpStream::connect fails (nobody listens), `?` returns
ConnectRefused ==
    /\ pc[Client] = "connect"
    /\ pc[Host] \in {"bind", "done"}
    /\ ReturnErr(Client)
    /\ UNCHANGED <<connected, wire, events, sent, rcvd>>
    /\ UNCHANGED <<sessVars, histVars, netVars, appVars>>
    /\ UNCHANGED <<chanVars, cmdHist, malformed, timeVars, idleVars>>

\* host step 2: listener.accept() returns, send Connected
Accept ==
    /\ pc[Host] = "accept"
    /\ connected
    /\ EmitThen(Host, Event("Connected"), NextPc(Host))
    /\ UNCHANGED <<connected, wire, sent, rcvd>>
    /\ UNCHANGED <<sessVars, histVars, netVars, appVars>>
    /\ UNCHANGED <<chanVars, cmdHist, malformed, timeVars, idleVars>>

(* ------------------------------ handshake ------------------------------ *)
\* send_packet(stream, f).await? at a handshake step
SendFrameStep(s, f) ==
    \E ok \in SendOutcomes(s) :
        IF ok
        THEN Transmit(s, f) /\ Goto(s, NextPc(s))
        ELSE ReturnErr(s) /\ UNCHANGED <<wire, sent>>

\* host step 3 / client step 3: send Version { PROTOCOL_VERSION }
SendVersion(s) ==
    /\ pc[s] = "sendVer"
    /\ SendFrameStep(s, to_plain_bytes(MsgVersion(PROTOCOL_VERSION)))
    /\ UNCHANGED <<connected, events, rcvd>>
    /\ UNCHANGED <<sessVars, histVars, netVars, appVars>>
    /\ UNCHANGED <<chanVars, cmdHist, malformed, timeVars, idleVars>>

\* host step 4 / client step 2: receive and check the peer's Version
RecvVersion(s) ==
    /\ pc[s] = "recvVer"
    /\ CanRecv(s)
    /\ IF ~RecvOk(s)
       THEN RecvErr(s) /\ UNCHANGED <<peerVersion, malformed>>
       ELSE \E a \in Arrivals(s) :
            IF RecvTooLarge(a.hdr)
            THEN /\ RecvInvalidData(s, a)
                 /\ ReturnErr(s)
                 /\ UNCHANGED <<peerVersion, malformed>>
            ELSE
            /\ Consume(s, a)
            /\ malformed' = [malformed EXCEPT ![s] = @ \/ ~IsVersionFrame(a.frame)]
            /\ LET m == from_plain_bytes(a.frame) IN
               IF m.type # "Version"
               THEN ReturnErr(s) /\ UNCHANGED peerVersion
               ELSE /\ peerVersion' = [peerVersion EXCEPT ![s] = m.version]
                    /\ IF m.version < MIN_VERSION
                       THEN ReturnErr(s)
                       ELSE Goto(s, NextPc(s))
    /\ UNCHANGED <<connected, events, sent>>
    /\ UNCHANGED <<peerFp, ephSecret, peerEph, aesKey, histVars, appVars>>
    /\ UNCHANGED <<chanVars, cmdHist, timeVars, idleVars>>

\* host step 5 / client step 6: send the own RSA public key as PEM
SendIdentity(s) ==
    /\ pc[s] = "sendId"
    /\ SendFrameStep(s, pem_encode_public(IdentityOf(s)))
    /\ UNCHANGED <<connected, events, rcvd>>
    /\ UNCHANGED <<sessVars, histVars, netVars, appVars>>
    /\ UNCHANGED <<chanVars, cmdHist, malformed, timeVars, idleVars>>

\* host step 6 / client step 4: receive the peer's PEM, compute its fingerprint
RecvIdentity(s) ==
    /\ pc[s] = "recvId"
    /\ CanRecv(s)
    /\ IF ~RecvOk(s)
       THEN RecvErr(s) /\ UNCHANGED peerFp
       ELSE \E a \in Arrivals(s) :
            IF RecvTooLarge(a.hdr)
            THEN RecvInvalidData(s, a) /\ ReturnErr(s) /\ UNCHANGED peerFp
            ELSE
            /\ Consume(s, a)
            /\ IF ~pem_decode_public(a.frame)
               THEN ReturnErr(s) /\ UNCHANGED peerFp
               ELSE /\ peerFp' = [peerFp EXCEPT ![s] = fingerprint_pubkey(a.frame)]
                    /\ Goto(s, NextPc(s))
    /\ UNCHANGED <<connected, events, sent>>
    /\ UNCHANGED <<peerVersion, ephSecret, peerEph, aesKey, histVars, appVars>>
    /\ UNCHANGED <<chanVars, cmdHist, malformed, timeVars, idleVars>>

\* host step 7 / client step 5: send FingerprintReceived upward
EmitFingerprint(s) ==
    /\ pc[s] = "emitFp"
    /\ EmitThen(s, Event("FingerprintReceived"), NextPc(s))
    /\ UNCHANGED <<connected, wire, sent, rcvd>>
    /\ UNCHANGED <<sessVars, histVars, netVars, appVars>>
    /\ UNCHANGED <<chanVars, cmdHist, malformed, timeVars, idleVars>>

\* "TODO: Wait for user confirmation": tokio::time::sleep(500 ms) elapses;
\* the confirmation channel is not read
Sleep(s) ==
    /\ pc[s] = "sleep"
    /\ Goto(s, NextPc(s))
    /\ UNCHANGED <<connected, wire, events, sent, rcvd>>
    /\ UNCHANGED <<sessVars, histVars, netVars, appVars>>
    /\ UNCHANGED <<chanVars, cmdHist, malformed, timeVars, idleVars>>

\* host step 8 / client step 8: generate_ephemeral_keypair()
GenEphemeral(s) ==
    /\ pc[s] = "genEph"
    /\ \E k \in Secrets : ephSecret' = [ephSecret EXCEPT ![s] = k]
    /\ Goto(s, NextPc(s))
    /\ UNCHANGED <<connected, wire, events, sent, rcvd>>
    /\ UNCHANGED <<peerVersion, peerFp, peerEph, aesKey, histVars, netVars, appVars>>
    /\ UNCHANGED <<chanVars, cmdHist, malformed, timeVars, idleVars>>

\* host step 9 / client step 9: send EphemeralKey { public }
SendEphemeral(s) ==
    /\ pc[s] = "sendEph"
    /\ SendFrameStep(s, to_plain_bytes(MsgEphemeralKey(
              [len |-> X25519_LEN, val |-> X25519PublicKey(ephSecret[s])])))
    /\ UNCHANGED <<connected, events, rcvd>>
    /\ UNCHANGED <<sessVars, histVars, netVars, appVars>>
    /\ UNCHANGED <<chanVars, cmdHist, malformed, timeVars, idleVars>>

\* host step 10 / client step 7: receive and parse the peer's EphemeralKey
RecvEphemeral(s) ==
    /\ pc[s] = "recvEph"
    /\ CanRecv(s)
    /\ IF ~RecvOk(s)
       THEN RecvErr(s) /\ UNCHANGED <<peerEph, malformed>>
       ELSE \E a \in Arrivals(s) :
            IF RecvTooLarge(a.hdr)
            THEN /\ RecvInvalidData(s, a)
                 /\ ReturnErr(s)
                 /\ UNCHANGED <<peerEph, malformed>>
            ELSE
            /\ Consume(s, a)
            /\ malformed' = [malformed EXCEPT ![s] = @ \/ ~IsEphemeralKeyFrame(a.frame)]
            /\ LET m == from_plain_bytes(a.frame) IN
               IF m.type # "EphemeralKey"
               THEN ReturnErr(s) /\ UNCHANGED peerEph
               ELSE IF ~parse_x25519_public(m.public_key)
               THEN ReturnErr(s) /\ UNCHANGED peerEph
               ELSE /\ peerEph' = [peerEph EXCEPT ![s] = m.public_key.val]
                    /\ Goto(s, NextPc(s))
    /\ UNCHANGED <<connected, events, sent>>
    /\ UNCHANGED <<peerVersion, peerFp, ephSecret, aesKey, histVars, appVars>>
    /\ UNCHANGED <<chanVars, cmdHist, timeVars, idleVars>>

\* a variant whose derivation borrows the secret instead of consuming it
DeriveKey_KeepsSecret(s) ==
    /\ pc[s] = "derive"
    /\ aesKey' = [aesKey EXCEPT ![s] =
                    derive_session_key(ephSecret[s], peerEph[s], HKDF_INFO)]
    /\ derives' = [derives EXCEPT ![s] = @ + 1]
    /\ Goto(s, NextPc(s))
    /\ UNCHANGED <<connected, wire, events, sent, rcvd>>
    /\ UNCHANGED <<peerVersion, peerFp, ephSecret, peerEph, delivered, undecrypted, netVars, appVars>>
    /\ UNCHANGED <<chanVars, cmdHist, malformed, timeVars, idleVars>>

\* host step 11 / client step 10: derive_session_key consumes the secret
DeriveKey(s) ==
    /\ pc[s] = "derive"
    /\ aesKey' = [aesKey EXCEPT ![s] =
                    derive_session_key(ephSecret[s], peerEph[s], HKDF_INFO)]
    /\ ephSecret' = [ephSecret EXCEPT ![s] = 0]
    /\ derives' = [derives EXCEPT ![s] = @ + 1]
    /\ Goto(s, NextPc(s))
    /\ UNCHANGED <<connected, wire, events, sent, rcvd>>
    /\ UNCHANGED <<peerVersion, peerFp, peerEph, delivered, undecrypted, netVars, appVars>>
    /\ UNCHANGED <<chanVars, cmdHist, malformed, timeVars, idleVars>>

\* a variant that enters the message loop without announcing Ready
EmitReady_Silent(s) ==
    /\ pc[s] = "ready"
    /\ Goto(s, NextPc(s))
    /\ UNCHANGED <<connected, wire, events, sent, rcvd>>
    /\ UNCHANGED <<sessVars, histVars, netVars, appVars>>
    /\ UNCHANGED <<chanVars, cmdHist, malformed, timeVars, idleVars>>

\* host step 12 / client step 11: send Ready, enter run_message_loop
EmitReady(s) ==
    /\ pc[s] = "ready"
    /\ EmitThen(s, Event("Ready"), NextPc(s))
    /\ UNCHANGED <<connected, wire, sent, rcvd>>
    /\ UNCHANGED <<sessVars, histVars, netVars, appVars>>
    /\ UNCHANGED <<chanVars, cmdHist, malformed, timeVars, idleVars>>

\* a variant that treats a frame it cannot parse as the end of the session
LoopRecv_StrictParse(s) ==
    /\ pc[s] = "loop"
    /\ CanRecv(s)
    /\ IF ~RecvOk(s)
       THEN LeaveLoop(s) /\ UNCHANGED <<wire, rcvd, delivered, undecrypted, netVars>>
       ELSE \E a \in Arrivals(s) :
            IF RecvTooLarge(a.hdr)
            THEN \* Err(e): "Receive error" is logged, then `break`
                 /\ RecvInvalidData(s, a)
                 /\ LeaveLoop(s)
                 /\ UNCHANGED <<delivered, undecrypted>>
            ELSE
            /\ Consume(s, a)
            /\ LET plaintext == decrypt(aesKey[s], a.frame)
                   msg == from_plain_bytes(plaintext)
               IN  IF plaintext = NoBytes
                   THEN \* "Decryption failed": logged, the loop goes on
                        /\ Goto(s, "loop")
                        /\ undecrypted' = [undecrypted EXCEPT ![s] = @ + 1]
                        /\ UNCHANGED <<events, delivered>>
                   ELSE IF msg = NoMsg
                   THEN LeaveLoop(s) /\ UNCHANGED <<delivered, undecrypted>>
                   ELSE /\ EmitThen(s, EvMessageReceived(msg), "loop")
                        /\ undecrypted' = undecrypted
                        /\ delivered' = [delivered EXCEPT ![s] =
                                           IF appAlive[s]
                                           THEN Append(@, [frame |-> a.frame,
                                                           altered |-> a.altered,
                                                           seq |-> Len(rcvd[s]) + 1,
                                                           afterNone |-> branchOff[s]])
                                           ELSE @]
    \* the select! of the next iteration polls the command channel again
    /\ branchOff' = [branchOff EXCEPT ![s] = FALSE]
    /\ UNCHANGED <<connected, sent>>
    /\ UNCHANGED <<sessVars, derives, appVars>>
    /\ UNCHANGED <<cmdOpen, cmdHist, malformed, timeVars, idleVars>>

(* ----------------------------- message loop ---------------------------- *)
\* select! branch 1: recv_packet(&mut stream) completed
LoopRecv(s) ==
    /\ pc[s] = "loop"
    /\ CanRecv(s)
    /\ IF ~RecvOk(s)
       THEN LeaveLoop(s) /\ UNCHANGED <<wire, rcvd, delivered, undecrypted, netVars>>
       ELSE \E a \in Arrivals(s) :
            IF RecvTooLarge(a.hdr)
            THEN \* Err(e): "Receive error" is logged, then `break`
                 /\ RecvInvalidData(s, a)
                 /\ LeaveLoop(s)
                 /\ UNCHANGED <<delivered, undecrypted>>
            ELSE
            /\ Consume(s, a)
            /\ LET plaintext == decrypt(aesKey[s], a.frame)
                   msg == from_plain_bytes(plaintext)
               IN  IF plaintext = NoBytes
                   THEN \* "Decryption failed": logged, the loop goes on
                        /\ Goto(s, "loop")
                        /\ undecrypted' = [undecrypted EXCEPT ![s] = @ + 1]
                        /\ UNCHANGED <<events, delivered>>
                   ELSE IF msg = NoMsg
                   THEN \* "Failed to parse message": logged, the loop goes on
                        Goto(s, "loop") /\ UNCHANGED <<events, delivered, undecrypted>>
                   ELSE /\ EmitThen(s, EvMessageReceived(msg), "loop")
                        /\ undecrypted' = undecrypted
                        /\ delivered' = [delivered EXCEPT ![s] =
                                           IF appAlive[s]
                                           THEN Append(@, [frame |-> a.frame,
                                                           altered |-> a.altered,
                                                           seq |-> Len(rcvd[s]) + 1,
                                                           afterNone |-> branchOff[s]])
                                           ELSE @]
    \* the select! of the next iteration polls the command channel again
    /\ branchOff' = [branchOff EXCEPT ![s] = FALSE]
    /\ UNCHANGED <<connected, sent>>
    /\ UNCHANGED <<sessVars, derives, appVars>>
    /\ UNCHANGED <<cmdOpen, cmdHist, malformed, timeVars, idleVars>>

\* a variant that hands out the newest queued command
ChannelRecv_Newest(q) == q[Len(q)]

\* from_app_rx.recv() on a non-empty unbounded channel: the oldest command
ChannelRecv(q) == Head(q)

\* select! branch 2: Some(msg) = from_app_rx.recv()
LoopSend(s) ==
    /\ pc[s] = "loop"
    /\ cmds[s] # <<>>
    /\ cmds' = [cmds EXCEPT ![s] = Tail(@)]
    /\ \E nonce \in Nonces, ok \in SendOutcomes(s) :
          LET encrypted == encrypt(aesKey[s], nonce, to_plain_bytes(ChannelRecv(cmds[s])))
          IN  IF ok
              THEN /\ Transmit(s, encrypted)
                   /\ outbox' = [outbox EXCEPT ![s] = Append(@, encrypted)]
                   /\ Goto(s, "loop")
                   /\ events' = events
              ELSE LeaveLoop(s) /\ UNCHANGED <<wire, sent, outbox>>
    /\ UNCHANGED <<connected, rcvd, confirm, appAlive, cmdCount>>
    /\ UNCHANGED <<sessVars, histVars, netVars>>
    /\ UNCHANGED <<chanVars, enq, malformed, timeVars, idleVars>>

\* a variant that treats a closed command channel as the end of the session
LoopCommandsNone_Break(s) ==
    /\ pc[s] = "loop"
    /\ cmds[s] = <<>>
    /\ ~cmdOpen[s]
    /\ ~branchOff[s]
    /\ branchOff' = [branchOff EXCEPT ![s] = TRUE]
    /\ LeaveLoop(s)
    /\ UNCHANGED <<connected, wire, sent, rcvd, cmdOpen>>
    /\ UNCHANGED <<sessVars, histVars, netVars, appVars>>
    /\ UNCHANGED <<cmdHist, malformed, timeVars, idleVars>>

\* select! branch 2 when from_app_rx.recv() yields None (every sender is gone
\* and the queue is drained): the pattern Some(msg) does not match, select!
\* disables the branch and keeps waiting on recv_packet alone
LoopCommandsNone(s) ==
    /\ pc[s] = "loop"
    /\ cmds[s] = <<>>
    /\ ~cmdOpen[s]
    /\ ~branchOff[s]
    /\ branchOff' = [branchOff EXCEPT ![s] = TRUE]
    /\ UNCHANGED <<pc, sockOpen, events>>
    /\ UNCHANGED <<connected, wire, sent, rcvd, cmdOpen>>
    /\ UNCHANGED <<sessVars, histVars, netVars, appVars>>
    /\ UNCHANGED <<cmdHist, malformed, timeVars, idleVars>>

\* the task is dropped at an await point (runtime shutdown, abort): the
\* future's locals are dropped, which closes the TcpStream; no code runs
Cancel(s) ==
    /\ pc[s] # "done"
    /\ pc' = [pc EXCEPT ![s] = "done"]
    /\ sockOpen' = [sockOpen EXCEPT ![s] = FALSE]
    /\ cancelled' = [cancelled EXCEPT ![s] = TRUE]
    /\ UNCHANGED <<connected, wire, events, sent, rcvd, deadlinePassed, idleVars>>
    /\ UNCHANGED <<sessVars, histVars, netVars, appVars>>
    /\ UNCHANGED <<chanVars, cmdHist, malformed>>

\* HANDSHAKE_TIMEOUT_SECS after the connection was made: no timer was armed
\* by the session, so the passing of the time changes nothing in it
Deadline(s) ==
    /\ pc[s] \notin {"bind", "accept", "connect", "done"}
    /\ ~deadlinePassed[s]
    /\ deadlinePassed' = [deadlinePassed EXCEPT ![s] = TRUE]
    /\ UNCHANGED <<pc, sockOpen, connected, wire, events, sent, rcvd, cancelled, idleVars>>
    /\ UNCHANGED <<sessVars, histVars, netVars, appVars>>
    /\ UNCHANGED <<chanVars, cmdHist, malformed>>

(* ------------------------ the caller (ChatManager) --------------------- *)
\* messages ChatManager puts on a command channel
Commands == {MsgText(<<"h">>, 1), MsgPing}

\* from_app_tx.send(msg) by the holder of the command channel, at most
\* `limit` times in a run
AppSendUpTo(s, m, limit) ==
    /\ appAlive[s]
    /\ cmdOpen[s]
    /\ pc[s] # "done"
    /\ cmdCount[Host] + cmdCount[Client] < limit
    /\ cmds' = [cmds EXCEPT ![s] = Append(@, m)]
    /\ cmdCount' = [cmdCount EXCEPT ![s] = @ + 1]
    /\ enq' = [enq EXCEPT ![s] = Append(@, m)]
    /\ UNCHANGED <<pc, connected, wire, sockOpen, events, confirm, appAlive, sent, rcvd>>
    /\ UNCHANGED <<sessVars, histVars, netVars>>
    /\ UNCHANGED <<chanVars, outbox, malformed, timeVars, idleVars>>

\* ChatManager::send_message / send_typing_*: session.from_app_tx.send(msg)
AppSend(s, m) == AppSendUpTo(s, m, MaxCmds)

\* the handshake-only messages; the channel's item type admits them
HandshakeOnly ==
    {MsgVersion(PROTOCOL_VERSION),
     MsgEphemeralKey([len |-> X25519_LEN, val |-> X25519_BASEPOINT])}

\* every sender of the command channel is dropped
CloseCommands(s) ==
    /\ cmdOpen[s]
    /\ pc[s] # "done"
    /\ cmdOpen' = [cmdOpen EXCEPT ![s] = FALSE]
    /\ UNCHANGED <<pc, connected, wire, sockOpen, events, sent, rcvd, branchOff>>
    /\ UNCHANGED <<sessVars, histVars, netVars, appVars>>
    /\ UNCHANGED <<cmdHist, malformed, timeVars, idleVars>>

\* ChatManager::confirm_fingerprint, called from the verification dialog
ConfirmFingerprint(s, accept) ==
    /\ appAlive[s]
    /\ HasEvent(s, "FingerprintReceived")
    /\ confirm[s] = <<>>
    /\ confirm' = [confirm EXCEPT ![s] = Append(@, accept)]
    /\ UNCHANGED <<pc, connected, wire, sockOpen, events, cmds, appAlive, cmdCount, sent, rcvd>>
    /\ UNCHANGED <<sessVars, histVars, netVars>>
    /\ UNCHANGED <<chanVars, cmdHist, malformed, timeVars, idleVars>>

\* ChatManager::delete_chat: the chat's channel ends are dropped
DeleteChat(s) ==
    /\ appAlive[s]
    /\ appAlive' = [appAlive EXCEPT ![s] = FALSE]
    /\ UNCHANGED <<pc, connected, wire, sockOpen, events, cmds, confirm, cmdCount, sent, rcvd>>
    /\ UNCHANGED <<sessVars, histVars, netVars>>
    /\ UNCHANGED <<chanVars, cmdHist, malformed, timeVars, idleVars>>

(* ------------------- send_packet / recv_packet steps ------------------- *)
\* payloads handed to send_packet: empty, one byte, a few different bytes, a
\* length whose header has several non-zero bytes, the largest allowed and
\* the smallest refused
Payloads ==
    {Fill(0, 0),
     Fill(1, 1),
     FromBytes(<<0, 0, 0, 1>>),
     Fill(258, 2),
     Fill(MAX_PACKET_SIZE, 42),
     Fill(MAX_PACKET_SIZE + 1, 42)}

\* the numbers of bytes one read (or write) may transfer when `had` bytes of
\* the buffer are done, `want` more are asked for and `avail` can be had: all
\* of them or, on the first transfer, a single byte or half of them
IoSizes(had, want, avail) ==
    LET m == IF want < avail THEN want ELSE avail
    IN  {m} \cup (IF had = 0 THEN {k \in {1, m \div 2} : k >= 1} ELSE {})

\* send_packet: the size check, then write_all(&header)
SendPacketBegin(payload) ==
    /\ Len(calls) < MaxFrames
    /\ wRest = <<>>
    /\ \A i \in 1..Len(calls) : calls[i].res # "pending"
    /\ IF SendTooLarge(RunLen(payload))
       THEN /\ calls' = Append(calls, [payload |-> payload, res |-> "InvalidInput", wrote |-> 0])
            /\ UNCHANGED <<stream, wRest>>
       ELSE /\ stream' = Cat(stream, FromBytes(to_be_bytes(RunLen(payload))))
            /\ wRest' = payload
            /\ calls' = Append(calls, [payload |-> payload,
                                        res |-> IF payload = <<>> THEN "Ok" ELSE "pending",
                                        wrote |-> 4])
    /\ UNCHANGED <<rpc, rBuf, rNeed, got>>
    /\ UNCHANGED <<sessionVars, probeVars, xferVars>>

\* send_packet: write_all(payload) hands the stream some more bytes; after
\* the last of them (and the flush) the call returns Ok
SendPacketWrite ==
    /\ wRest # <<>>
    /\ \E k \in IoSizes(calls[Len(calls)].wrote - 4, RunLen(wRest), RunLen(wRest)) :
          /\ stream' = Cat(stream, TakeBytes(wRest, k))
          /\ wRest' = DropBytes(wRest, k)
          /\ calls' = [calls EXCEPT ![Len(calls)] =
                          [@ EXCEPT !.wrote = @ + k,
                                    !.res = IF k = RunLen(wRest) THEN "Ok" ELSE "pending"]]
    /\ UNCHANGED <<rpc, rBuf, rNeed, got>>
    /\ UNCHANGED <<sessionVars, probeVars, xferVars>>

\* recv_packet: read_exact(&mut header) gets some bytes; with the fourth the
\* length is decoded and checked
RecvPacketHeader ==
    /\ rpc = "header"
    /\ stream # <<>>
    /\ \E k \in IoSizes(RunLen(rBuf), 4 - RunLen(rBuf), RunLen(stream)) :
          LET header == Cat(rBuf, TakeBytes(stream, k))
              n == from_be_bytes(Expand(header))
          IN  /\ stream' = DropBytes(stream, k)
              /\ IF RunLen(header) < 4
                 THEN /\ rBuf' = header
                      /\ UNCHANGED <<rpc, rNeed, got>>
                 ELSE IF RecvTooLarge(n)
                 THEN /\ rpc' = "err"
                      /\ rBuf' = <<>>
                      /\ UNCHANGED <<rNeed, got>>
                 ELSE IF n = 0
                 THEN \* read_exact into an empty buffer returns at once
                      /\ got' = Append(got, <<>>)
                      /\ rBuf' = <<>>
                      /\ UNCHANGED <<rpc, rNeed>>
                 ELSE /\ rpc' = "payload"
                      /\ rNeed' = n
                      /\ rBuf' = <<>>
                      /\ got' = got
    /\ UNCHANGED <<calls, wRest>>
    /\ UNCHANGED <<sessionVars, probeVars, xferVars>>

\* recv_packet: read_exact(&mut buf) gets some bytes; with the last one the
\* call returns Ok(buf) and the next call starts at the next header
RecvPacketPayload ==
    /\ rpc = "payload"
    /\ stream # <<>>
    /\ \E k \in IoSizes(RunLen(rBuf), rNeed - RunLen(rBuf), RunLen(stream)) :
          LET buf == Cat(rBuf, TakeBytes(stream, k))
          IN  /\ stream' = DropBytes(stream, k)
              /\ IF RunLen(buf) < rNeed
                 THEN /\ rBuf' = buf
                      /\ UNCHANGED <<rpc, rNeed, got>>
                 ELSE /\ got' = Append(got, buf)
                      /\ rBuf' = <<>>
                      /\ rNeed' = 0
                      /\ rpc' = "header"
    /\ UNCHANGED <<calls, wRest>>
    /\ UNCHANGED <<sessionVars, probeVars, xferVars>>

(* --------------------------- specifications ---------------------------- *)
\* one step of the session task s
SessionStep(s) ==
    \/ SendVersion(s)
    \/ RecvVersion(s)
    \/ SendIdentity(s)
    \/ RecvIdentity(s)
    \/ EmitFingerprint(s)
    \/ Sleep(s)
    \/ GenEphemeral(s)
    \/ SendEphemeral(s)
    \/ RecvEphemeral(s)
    \/ DeriveKey(s)
    \/ EmitReady(s)
    \/ LoopRecv(s)
    \/ LoopSend(s)

Next ==
    \/ Bind
    \/ Connect
    \/ ConnectRefused
    \/ Accept
    \/ \E s \in Sessions : SessionStep(s)
    \/ \E s \in Sessions, m \in Commands : AppSend(s, m)
    \/ \E s \in Sessions, accept \in BOOLEAN : ConfirmFingerprint(s, accept)
    \/ \E s \in Sessions : DeleteChat(s)

Spec == Init /\ [][Next]_vars

\* two conforming peers on a reliable stream whose users accept the
\* fingerprints; every task that can take a step eventually takes it
LiveNext ==
    \/ Bind
    \/ Connect
    \/ Accept
    \/ \E s \in Sessions : SessionStep(s)
    \/ \E s \in Sessions, m \in Commands : AppSend(s, m)
    \/ \E s \in Sessions : ConfirmFingerprint(s, TRUE)

LiveInit == InitWith(0)

LiveSpec ==
    /\ LiveInit
    /\ [][LiveNext]_vars
    /\ WF_vars(Bind)
    /\ WF_vars(Connect)
    /\ WF_vars(Accept)
    /\ \A s \in Sessions : WF_vars(SessionStep(s))

\* the same without the answers to the fingerprint dialog: no session reads
\* the confirmation channel, so the verdicts change no other variable
CoreNext ==
    \/ Bind
    \/ Connect
    \/ ConnectRefused
    \/ Accept
    \/ \E s \in Sessions : SessionStep(s)
    \/ \E s \in Sessions, m \in Commands : AppSend(s, m)
    \/ \E s \in Sessions : DeleteChat(s)

CoreSpec == Init /\ [][CoreNext]_vars

\* the sessions on a reliable stream under bursts of commands
LoopNext ==
    \/ Bind
    \/ Connect
    \/ Accept
    \/ \E s \in Sessions : SessionStep(s)
    \/ \E s \in Sessions, m \in Commands : AppSendUpTo(s, m, MaxBurst)
    \/ \E s \in Sessions : DeleteChat(s)

LoopInit == InitWith(0)

LoopSpec == LoopInit /\ [][LoopNext]_vars

\* the sessions on a reliable stream when the holder of the command channel
\* may drop it
ClosedNext ==
    \/ Bind
    \/ Connect
    \/ Accept
    \/ \E s \in Sessions : SessionStep(s)
    \/ \E s \in Sessions : LoopCommandsNone(s)
    \/ \E s \in Sessions, m \in Commands : AppSend(s, m)
    \/ \E s \in Sessions : CloseCommands(s)
    \/ \E s \in Sessions : DeleteChat(s)

ClosedInit == InitWith(0)

ClosedSpec == ClosedInit /\ [][ClosedNext]_vars

\* the sessions with the clock and the scheduler: the handshake deadline may
\* pass, a task may be dropped at any await point, and the command channel
\* carries every variant of ProtocolMessage
TimedNext ==
    \/ Bind
    \/ Connect
    \/ ConnectRefused
    \/ Accept
    \/ \E s \in Sessions : SessionStep(s)
    \/ \E s \in Sessions, m \in Commands \cup HandshakeOnly : AppSend(s, m)
    \/ \E s \in Sessions : DeleteChat(s)
    \/ \E s \in Sessions : Deadline(s)
    \/ \E s \in Sessions : Cancel(s)

TimedInit == InitWith(0)

TimedSpec == TimedInit /\ [][TimedNext]_vars

\* one writer calling send_packet and one reader calling recv_packet on the
\* two ends of a byte stream
FramingNext ==
    \/ \E payload \in Payloads : SendPacketBegin(payload)
    \/ SendPacketWrite
    \/ RecvPacketHeader
    \/ RecvPacketPayload

FramingInit == InitWith(0)

FramingSpec == FramingInit /\ [][FramingNext]_vars

(* ------------------------ vocabulary of the claims --------------------- *)
FpEmitted(s) == HasEvent(s, "FingerprintReceived")
IsReady(s) == HasEvent(s, "Ready")
BothReady == IsReady(Host) /\ IsReady(Client)
Wrote(s, tag) == \E i \in 1..Len(sent[s]) : sent[s][i] = tag
EphSent(s) == Wrote(s, "EPHEMERAL_KEY:")
\* an accept / a reject is what the caller put on the confirmation channel
Accepted(s) == confirm[s] # <<>> /\ Head(confirm[s])
Rejected(s) == confirm[s] # <<>> /\ ~Head(confirm[s])
\* the confirmation channel was closed without a value
VerdictDropped(s) == confirm[s] = <<>> /\ ~appAlive[s]
Terminals(s) ==
    {i \in 1..Len(events[s]) : events[s][i].ev \in {"Disconnected", "Error"}}
\* the plaintext (handshake) frames a session wrote
PlainSent(s) == SelectSeq(sent[s], LAMBDA t : t # "AEAD")
HandshakeOrder == <<"VERSION:", "PEM", "EPHEMERAL_KEY:">>

(* ------------------------------- claims -------------------------------- *)
\* C1: once the peer's fingerprint has been emitted, a session generates or
\* sends no EphemeralKey, derives no session key and emits no Ready until an
\* accept verdict is on the fingerprint-verdict channel.
\* The sessions sleep 500 ms and go on: TLC finds this violated.
C1_NoStepWithoutAccept ==
    \A s \in Sessions :
        (FpEmitted(s) /\ ~Accepted(s)) =>
            /\ ephSecret[s] = 0
            /\ ~EphSent(s)
            /\ aesKey[s] = NoKey
            /\ ~IsReady(s)

\* C2: when the verdict for the pending fingerprint is reject, or the channel
\* is closed without a value, no step of the run sends an EphemeralKey frame
\* or derives a session key.
\* The sessions never read the verdict: TLC finds this violated.
C2_RejectEndsHandshake ==
    [][\A s \in Sessions :
         (FpEmitted(s) /\ (Rejected(s) \/ VerdictDropped(s))
            /\ ~EphSent(s) /\ aesKey[s] = NoKey)
         => (~EphSent(s)' /\ aesKey'[s] = NoKey)]_vars

\* C3: a session that read a Version below 2 has emitted Error, closed the
\* socket and terminated, and holds no session key and has not emitted Ready.
\* The session returns Err without emitting any event: TLC finds this violated.
C3_OldVersionReported ==
    \A s \in Sessions :
        (peerVersion[s] # NoVersion /\ peerVersion[s] < 2) =>
            /\ pc[s] = "done"
            /\ ~sockOpen[s]
            /\ HasEvent(s, "Error")
            /\ aesKey[s] = NoKey
            /\ ~IsReady(s)

\* C4: a session (a task whose connection was established) that terminated
\* has emitted exactly one terminal event, Disconnected or Error, as its last
\* event.  Handshake failures emit none: TLC finds this violated.
C4_OneTerminalEvent ==
    \A s \in Sessions :
        (pc[s] = "done" /\ HasEvent(s, "Connected")) =>
            /\ Cardinality(Terminals(s)) = 1
            /\ Len(events[s]) \in Terminals(s)

\* C5: after Ready, a session that received a frame failing AEAD decryption
\* has emitted Error and terminated.
\* The loop logs the failure and reads on: TLC finds this violated.
C5_DecryptFailureTerminates ==
    \A s \in Sessions :
        undecrypted[s] > 0 => (pc[s] = "done" /\ HasEvent(s, "Error"))

\* C6: every MessageReceived a session emitted belongs to a frame that
\* arrived unaltered and authenticates under the session key; a frame altered
\* in transit never yields a MessageReceived.
C6_OnlyAuthenticFramesDelivered ==
    \A s \in Sessions :
        /\ Cardinality({i \in 1..Len(events[s]) :
                          events[s][i].ev = "MessageReceived"}) = Len(delivered[s])
        /\ \A i \in 1..Len(delivered[s]) :
             LET a == delivered[s][i] IN
             /\ ~a.altered
             /\ a.frame.len >= AES_NONCE_SIZE + AES_TAG_SIZE
             /\ a.frame.mac = GcmTag(aesKey[s], a.frame.nonce, a.frame.ct)

\* C6 witness: an altered encrypted frame reached a session in the message
\* loop and produced no MessageReceived
C6_Witness ==
    \E s \in Sessions :
        /\ undecrypted[s] > 0
        /\ tampers < MaxTamper
        /\ ~hsTampered
        /\ ~HasEvent(s, "MessageReceived")

\* C7: when both sessions of a connection whose handshake frames arrived as
\* sent have emitted Ready, they hold the same session key, each derived it
\* once, and every frame in flight decrypts under the receiver's key.
C7_SameSessionKey ==
    (BothReady /\ ~hsTampered) =>
        /\ aesKey[Host] # NoKey
        /\ aesKey[Host] = aesKey[Client]
        /\ \A s \in Sessions :
             /\ derives[s] = 1
             /\ \A i \in 1..Len(wire[s]) : decrypt(aesKey[s], wire[s][i]) # NoBytes

\* C7 witness: both are Ready and a frame encrypted by one was decrypted and
\* delivered by the other
C7_Witness ==
    /\ BothReady
    /\ ~hsTampered
    /\ \E s \in Sessions : Len(delivered[s]) > 0

\* C8: two conforming sessions on a reliable stream never deadlock in the
\* handshake: eventually both have emitted Ready.
C8_BothEventuallyReady == <>BothReady

\* C8 witness: both fingerprints were accepted and both sessions are Ready
C8_Witness == BothReady /\ Accepted(Host) /\ Accepted(Client)

\* C9: each side writes at most three plaintext frames, in the order Version,
\* identity, EphemeralKey, and encrypted frames only after them; the client
\* writes its k-th frame only after it received k frames and after the host
\* wrote its k-th; an encrypted frame is written only by a side that has sent
\* and received an EphemeralKey.
C9_HandshakeOrder ==
    /\ \A s \in Sessions :
         /\ Len(PlainSent(s)) <= 3
         /\ \A i \in 1..Len(sent[s]) :
              sent[s][i] = (IF i <= 3 THEN HandshakeOrder[i] ELSE "AEAD")
         /\ Wrote(s, "AEAD") =>
              /\ EphSent(s)
              /\ Len(rcvd[s]) >= 3
              /\ rcvd[s][3] = "EPHEMERAL_KEY:"
    /\ Len(PlainSent(Client)) <= Len(rcvd[Client])
    /\ Len(PlainSent(Client)) <= Len(PlainSent(Host))

\* C9 witness: both sides wrote their three handshake frames and one of them
\* wrote an encrypted frame
C9_Witness ==
    /\ Len(PlainSent(Host)) = 3
    /\ Len(PlainSent(Client)) = 3
    /\ \E s \in Sessions : Wrote(s, "AEAD")

EvName(s, j) == events[s][j].ev
Before(s, a, j) == \E i \in 1..(j - 1) : EvName(s, i) = a
MsgEvents(s) == SelectSeq(events[s], LAMBDA e : e.ev = "MessageReceived")
\* the encrypted frames among those in flight towards s
AeadInFlight(s) == SelectSeq(wire[s], LAMBDA f : f.tag = "AEAD")
\* the commands the message loop of s has taken from the channel
Taken(s) == SubSeq(enq[s], 1, Len(enq[s]) - Len(cmds[s]))

\* C11: in the events of a session Listening (host) precedes Connected,
\* Connected precedes the fingerprint event, the fingerprint event precedes
\* Ready and Ready precedes every MessageReceived; each lifecycle event occurs
\* once.
C11_EventOrder ==
    \A s \in Sessions : \A j \in 1..Len(events[s]) :
        LET e == EvName(s, j) IN
        /\ (e = "Connected" /\ s = Host) => Before(s, "Listening", j)
        /\ e = "FingerprintReceived" => Before(s, "Connected", j)
        /\ e = "Ready" => Before(s, "FingerprintReceived", j)
        /\ e = "MessageReceived" => Before(s, "Ready", j)
        /\ e \in {"Listening", "Connected", "FingerprintReceived", "Ready"}
              => ~Before(s, e, j)

\* C11 witness: the host emitted its whole lifecycle and then a message
C11_Witness ==
    /\ Len(events[Host]) = 5
    /\ [j \in 1..5 |-> EvName(Host, j)] =
         <<"Listening", "Connected", "FingerprintReceived", "Ready", "MessageReceived">>

\* C12: the encrypted frames the message loop wrote are, in order, the
\* encryptions of the commands in the order they were enqueued, none skipped,
\* duplicated or reordered; what is not yet written is still queued in order,
\* and the frames in flight are the last ones written.
C12_CommandOrder ==
    \A s \in Sessions :
        /\ Len(outbox[s]) <= Len(enq[s])
        /\ \A i \in 1..Len(outbox[s]) :
             decrypt(aesKey[s], outbox[s][i]) = to_plain_bytes(enq[s][i])
        /\ pc[s] # "done" =>
             cmds[s] = SubSeq(enq[s], Len(outbox[s]) + 1, Len(enq[s]))
        /\ sockOpen[Peer(s)] =>
             /\ Len(AeadInFlight(Peer(s))) <= Len(outbox[s])
             /\ AeadInFlight(Peer(s)) =
                  SubSeq(outbox[s], Len(outbox[s]) - Len(AeadInFlight(Peer(s))) + 1,
                         Len(outbox[s]))

\* C12 witness: a session wrote two frames for two different commands
C12_Witness ==
    \E s \in Sessions :
        /\ Len(outbox[s]) >= 2
        /\ enq[s][1] # enq[s][2]

\* C13: the MessageReceived events of a session are, in order, the messages of
\* the frames that yielded them, these frames arrived in that order, and they
\* are the first frames the peer wrote, in the order it wrote them.
C13_ArrivalOrder ==
    \A s \in Sessions :
        /\ Len(MsgEvents(s)) = Len(delivered[s])
        /\ Len(delivered[s]) <= Len(outbox[Peer(s)])
        /\ \A i \in 1..Len(delivered[s]) :
             /\ MsgEvents(s)[i].msg =
                  from_plain_bytes(decrypt(aesKey[s], delivered[s][i].frame))
             /\ delivered[s][i].frame = outbox[Peer(s)][i]
             /\ \A j \in 1..(i - 1) : delivered[s][j].seq < delivered[s][i].seq

\* C13 witness: a session emitted two MessageReceived for two different frames
C13_Witness ==
    \E s \in Sessions :
        /\ Len(MsgEvents(s)) >= 2
        /\ delivered[s][1].frame # delivered[s][2].frame

\* C14: with the command channel closed, a session leaves the message loop
\* only because the socket closed (EOF on receive, or a failed write of a
\* command still queued) or because the event channel is gone; the closing
\* of the command channel alone never ends it.
C14_ClosedCommandsKeepReading ==
    [][\A s \in Sessions :
         (~cmdOpen[s] /\ pc[s] = "loop" /\ pc'[s] # "loop") =>
            \/ wire[s] = <<>> /\ ~sockOpen[Peer(s)]
            \/ cmds[s] # <<>> /\ ~sockOpen[Peer(s)]
            \/ ~appAlive[s]]_vars

\* C14 witness: a session whose command branch was disabled by the closed
\* channel went on to read a frame and emit its MessageReceived
C14_Witness ==
    \E s \in Sessions :
        /\ ~cmdOpen[s]
        /\ pc[s] = "loop"
        /\ \E i \in 1..Len(delivered[s]) : delivered[s][i].afterNone

\* C15: no frame the message loop wrote carries a Version or an EphemeralKey,
\* and a session that took one from the command channel has emitted Warning.
\* The loop encrypts and writes every command: TLC finds this violated.
C15_HandshakeOnlyRejected ==
    \A s \in Sessions :
        /\ \A i \in 1..Len(outbox[s]) :
             from_plain_bytes(decrypt(aesKey[s], outbox[s][i])).type
                \notin {"Version", "EphemeralKey"}
        /\ (\E i \in 1..Len(Taken(s)) : Taken(s)[i] \in HandshakeOnly)
             => HasEvent(s, "Warning")

\* C16: once the handshake deadline has passed before Ready, the session does
\* not go on with the handshake: its only next step is to terminate.
\* No timer is armed, the handshake goes on: TLC finds this violated.
C16_HandshakeDeadline ==
    [][\A s \in Sessions :
         (deadlinePassed[s] /\ ~IsReady(s) /\ pc[s] # "done")
            => (pc'[s] \in {pc[s], "done"} /\ ~IsReady(s)')]_vars

\* C17: a session whose task was cancelled has closed its socket and emitted
\* Disconnected.
\* Dropping the task closes the socket but emits nothing: TLC finds this
\* violated.
C17_CancelDisconnects ==
    \A s \in Sessions :
        cancelled[s] => (~sockOpen[s] /\ HasEvent(s, "Disconnected"))

\* C18: a session that received, where a Version or an EphemeralKey was
\* expected, a frame that is not that message (or an EphemeralKey whose key is
\* not 32 bytes long) has terminated, holds no session key, derived none and
\* has not emitted Ready.
C18_MalformedHandshakeEnds ==
    \A s \in Sessions :
        malformed[s] =>
            /\ pc[s] = "done"
            /\ ~sockOpen[s]
            /\ aesKey[s] = NoKey
            /\ derives[s] = 0
            /\ ~IsReady(s)

\* C18 witness: a session got a malformed frame in place of the EphemeralKey
C18_Witness ==
    \E s \in Sessions :
        /\ malformed[s]
        /\ Len(rcvd[s]) = 3
        /\ pc[s] = "done"

\* the payloads of at most 8 MiB handed to send_packet, in call order
RECURSIVE Framed(_)
Framed(cs) ==
    IF cs = <<>> THEN <<>>
    ELSE (IF RunLen(Head(cs).payload) <= MAX_PACKET_SIZE
          THEN <<Head(cs).payload>> ELSE <<>>) \o Framed(Tail(cs))

\* the bytes all send_packet calls wrote, and the bytes recv_packet consumed
RECURSIVE BytesWritten(_)
BytesWritten(cs) ==
    IF cs = <<>> THEN 0 ELSE Head(cs).wrote + BytesWritten(Tail(cs))

RECURSIVE BytesReturned(_)
BytesReturned(ps) ==
    IF ps = <<>> THEN 0 ELSE 4 + RunLen(Head(ps)) + BytesReturned(Tail(ps))

BytesRead ==
    BytesReturned(got) + RunLen(rBuf) + (IF rpc = "payload" THEN 4 ELSE 0)

\* C19: recv_packet never fails on what send_packet wrote, the payloads it
\* returned are the payloads (of at most 8 MiB) given to send_packet, one per
\* call and in order, and once every byte written was read, every payload
\* was returned and no byte is left over.
C19_FramingRoundTrip ==
    /\ rpc # "err"
    /\ Len(got) <= Len(Framed(calls))
    /\ \A i \in 1..Len(got) : got[i] = Framed(calls)[i]
    /\ (stream = <<>> /\ wRest = <<>>) =>
          /\ got = Framed(calls)
          /\ rBuf = <<>>
          /\ rpc = "header"

\* C19 witness: two different payloads were returned by two calls and the
\* stream is drained
C19_Witness ==
    /\ Len(got) >= 2
    /\ got[1] # got[2]
    /\ stream = <<>>
    /\ wRest = <<>>

\* C20: a send_packet call with a payload longer than 8 MiB returned the
\* invalid-input error and wrote no byte; a call with a payload of at most
\* 8 MiB did not fail; the stream holds no byte that no accepted call wrote.
C20_OversizeRejected ==
    /\ \A i \in 1..Len(calls) :
         IF RunLen(calls[i].payload) > MAX_PACKET_SIZE
         THEN calls[i].res = "InvalidInput" /\ calls[i].wrote = 0
         ELSE calls[i].res # "InvalidInput"
    /\ RunLen(stream) + BytesRead = BytesWritten(calls)

\* C20 witness: a payload of 8 MiB + 1 was refused and one of exactly 8 MiB
\* was written in full
C20_Witness ==
    \E i, j \in 1..Len(calls) :
        /\ RunLen(calls[i].payload) = MAX_PACKET_SIZE + 1
        /\ calls[i].res = "InvalidInput"
        /\ RunLen(calls[j].payload) = MAX_PACKET_SIZE
        /\ calls[j].res = "Ok"

(* --------------------------- C21: oversize header ---------------------- *)
\* the handshake and the message loop on a network that alters length headers
OversizeInit == InitNet(0, MaxTamper)

OversizeSpec == OversizeInit /\ [][CoreNext]_vars

\* recv_packet of session s failed on a length header
Unread(s) == invalid[s] # NoInvalid

\* C21: a header above 8 MiB makes recv_packet fail before it reads a payload
\* byte (every payload byte is still in the stream), and the session that got
\* the error has ended: its task returned and dropped the stream.
C21_OversizeHeaderEndsSession ==
    \A s \in Sessions :
        Unread(s) =>
            /\ invalid[s].hdr > 8 * 1024 * 1024
            /\ invalid[s].left = invalid[s].of
            /\ wire[s] # <<>>
            /\ Head(wire[s]).len = invalid[s].of
            /\ pc[s] = "done"
            /\ ~sockOpen[s]

\* the error was met in the message loop, after Ready
C21_Witness ==
    \E s \in Sessions :
        /\ Unread(s)
        /\ invalid[s].of > 0
        /\ HasEvent(s, "Ready")
        /\ HasEvent(s, "Disconnected")

(* ------------------------- C22: codec round trip ----------------------- *)
\* characters of the strings drawn, and the strings of at most n of them
NameChars == {"a", ".", "|", "/"}
Strings(n) == UNION {[1..k -> NameChars] : k \in 0..n}

\* the messages drawn: every variant, every u8 version, empty and non-empty
\* texts, names and chunks
Messages ==
    {MsgVersion(v) : v \in 0..255} \cup
    {MsgEphemeralKey([len |-> n, val |-> 3]) : n \in {0, 16, X25519_LEN}} \cup
    {MsgText(t, ts) : t \in Strings(MaxName), ts \in {1, NowMillis}} \cup
    {MsgFileMeta(f, size) : f \in Strings(MaxName), size \in {0, 7, 65536}} \cup
    {MsgFileChunk(c, seq) : c \in {Fill(0, 0), Fill(1, 1), Fill(65536, 2)},
                            seq \in {0, 3}} \cup
    {MsgFileEnd, MsgPing, MsgTypingStart, MsgTypingStop}

\* m.to_plain_bytes()
Encode(m) ==
    /\ probe = NoProbe
    /\ probe' = [fn |-> "codec", in |-> m, bytes |-> to_plain_bytes(m),
                 out |-> NoMsg, done |-> FALSE]
    /\ UNCHANGED <<sessionVars, frameVars, xferVars>>

\* ProtocolMessage::from_plain_bytes(&bytes)
Decode ==
    /\ probe.fn = "codec"
    /\ ~probe.done
    /\ probe' = [probe EXCEPT !.out = from_plain_bytes(probe.bytes), !.done = TRUE]
    /\ UNCHANGED <<sessionVars, frameVars, xferVars>>

CodecNext ==
    \/ \E m \in Messages : Encode(m)
    \/ Decode

CodecInit == InitWith(0)

CodecSpec == CodecInit /\ [][CodecNext]_vars

\* same variant and equal fields, Text.timestamp and FileChunk.seq apart
Equivalent(m, r) ==
    /\ r.type = m.type
    /\ CASE m.type = "Version" -> r.version = m.version
          [] m.type = "EphemeralKey" -> r.public_key = m.public_key
          [] m.type = "Text" -> r.text = m.text
          [] m.type = "FileMeta" -> r.filename = m.filename /\ r.size = m.size
          [] m.type = "FileChunk" -> r.chunk = m.chunk
          [] OTHER -> TRUE

\* C22: from_plain_bytes(to_plain_bytes(m)) is Some(m') with m' of the same
\* variant as m and with equal fields, but for Text.timestamp and
\* FileChunk.seq, for every message m.
C22_CodecRoundTrip ==
    (probe.fn = "codec" /\ probe.done) =>
        /\ probe.out # NoMsg
        /\ Equivalent(probe.in, probe.out)

(* -------------------------- C30: AEAD round trip ----------------------- *)
\* 32-byte keys, as derive_session_key returns them
Keys == {Hkdf(x, HKDF_INFO) : x \in 1..22}

\* plaintexts: the empty one and encoded messages
Plaintexts ==
    {[tag |-> "", len |-> 0]} \cup
    {to_plain_bytes(m) : m \in {MsgPing, MsgFileEnd, MsgText(<<"h">>, 1),
                                MsgFileChunk(Fill(65536, 2), 0)}}

\* input lengths below AES_NONCE_SIZE + AES_TAG_SIZE
ShortLengths == {0, 1, AES_NONCE_SIZE, AES_NONCE_SIZE + AES_TAG_SIZE - 1}

\* AesCipher::new(key).encrypt(p), with the nonce thread_rng drew
Encrypt(key, p) ==
    /\ probe = NoProbe
    /\ \E nonce \in 1..(NumNonces + 1) :
         probe' = [fn |-> "aead", key |-> key, pt |-> p, given |-> "encrypted",
                   payload |-> encrypt(key, nonce, p), out |-> NoBytes,
                   done |-> FALSE]
    /\ UNCHANGED <<sessionVars, frameVars, xferVars>>

\* the caller hands decrypt only the first n bytes
Shorten(n) ==
    /\ probe.fn = "aead"
    /\ ~probe.done
    /\ probe.given = "encrypted"
    /\ n < probe.payload.len
    /\ probe' = [probe EXCEPT !.payload.len = n, !.given = "short"]
    /\ UNCHANGED <<sessionVars, frameVars, xferVars>>

\* AesCipher::new(key).decrypt(payload)
Decrypt ==
    /\ probe.fn = "aead"
    /\ ~probe.done
    /\ probe' = [probe EXCEPT !.out = decrypt(probe.key, probe.payload),
                              !.done = TRUE]
    /\ UNCHANGED <<sessionVars, frameVars, xferVars>>

AeadNext ==
    \/ \E key \in Keys, p \in Plaintexts : Encrypt(key, p)
    \/ \E n \in ShortLengths : Shorten(n)
    \/ Decrypt

AeadInit == InitWith(0)

AeadSpec == AeadInit /\ [][AeadNext]_vars

\* C30: decrypt(k, encrypt(k, p)) is Some(p) for every key k and plaintext p,
\* the empty one included; encrypt returns exactly 12 + |p| + 16 bytes; and
\* decrypt returns None for every input of fewer than 28 bytes.
C30_AeadRoundTrip ==
    probe.fn = "aead" =>
        /\ probe.given = "encrypted" => probe.payload.len = 12 + probe.pt.len + 16
        /\ (probe.done /\ probe.given = "encrypted") => probe.out = probe.pt
        /\ (probe.done /\ probe.payload.len < 28) => probe.out = NoBytes

\* the empty plaintext came back from a 28-byte output
C30_Witness ==
    /\ probe.fn = "aead"
    /\ probe.done
    /\ probe.given = "encrypted"
    /\ probe.pt.len = 0
    /\ probe.payload.len = 28
    /\ probe.out = probe.pt

(* --------------------- receive side: IncomingFile ---------------------- *)
\* sizes announced and chunks received
Sizes == {0, 2, 3}
Chunks == {Fill(1, 1), Fill(2, 2)}
\* what a file that was in the destination directory before holds
OldData == Fill(1, 9)

\* IncomingFile::start_meta(filename, size, tmp_dir) with the configured
\* temp directory
StartMeta(filename, size) ==
    /\ incoming.state = "none"
    /\ LET safe_filename == sanitize_filename(filename)
           tmp_path == TempDir \o <<TmpName("u1", safe_filename)>>
       IN  /\ fs' = WriteFile(fs, tmp_path, <<>>)
           /\ made' = made \cup {[owner |-> "u1", path |-> Real(tmp_path), data |-> <<>>]}
           /\ incoming' = [NoIncoming EXCEPT !.state = "open", !.tmp_path = tmp_path,
                                             !.expected = size,
                                             !.filename = safe_filename]
    /\ UNCHANGED <<sessionVars, frameVars, probeVars, raceVars, mgrVars, sendVars>>

\* IncomingFile::append_chunk(chunk): write_all, then count, then compare
AppendChunk(chunk) ==
    /\ incoming.state = "open"
    /\ incoming.appends < MaxChunks
    /\ fs' = WriteFile(fs, incoming.tmp_path, Cat(fs[Real(incoming.tmp_path)], chunk))
    /\ incoming' = [incoming EXCEPT
                        !.received = @ + RunLen(chunk),
                        !.appends = @ + 1,
                        !.failed = (incoming.received + RunLen(chunk) > incoming.expected)]
    /\ UNCHANGED <<sessionVars, frameVars, probeVars, raceVars, made, mgrVars, sendVars>>

\* IncomingFile::finalize, the loop `while final_path.exists()`
RECURSIVE FreePath(_, _, _, _)
FreePath(disk, filename, final_path, counter) ==
    IF ~ExistsIn(disk, final_path) THEN final_path
    ELSE LET stem == file_stem(filename)
             ext == extension(filename)
             new_filename == IF ext = <<>>
                             THEN stem \o <<"_">> \o Decimal(counter)
                             ELSE stem \o <<"_">> \o Decimal(counter) \o <<".">> \o ext
         IN  FreePath(disk, filename, Join(DownloadDir, new_filename), counter + 1)

\* IncomingFile::finalize(dest_dir) with the configured download directory:
\* Err on a size mismatch, else rename to the first free name
Finalize ==
    /\ incoming.state = "open"
    /\ IF incoming.received # incoming.expected
       THEN /\ incoming' = [incoming EXCEPT !.state = "failed"]
            /\ UNCHANGED fs
       ELSE LET final_path == FreePath(fs, incoming.filename,
                                       Join(DownloadDir, incoming.filename), 1)
            IN  /\ fs' = RenameFile(fs, incoming.tmp_path, final_path)
                /\ incoming' = [incoming EXCEPT !.state = "finalized",
                                                !.final_path = final_path]
    /\ UNCHANGED <<sessionVars, frameVars, probeVars, raceVars, made, mgrVars, sendVars>>

\* IncomingFile::abort_cleanup
AbortCleanup ==
    /\ incoming.state = "open"
    /\ fs' = RemoveFile(fs, incoming.tmp_path)
    /\ incoming' = [incoming EXCEPT !.state = "aborted"]
    /\ UNCHANGED <<sessionVars, frameVars, probeVars, raceVars, made, mgrVars, sendVars>>

\* the names finalize tries for a file name: the name itself, then _1, _2, ..
TriedName(filename, k) ==
    IF k = 0 THEN filename
    ELSE IF extension(filename) = <<>>
    THEN file_stem(filename) \o <<"_">> \o Decimal(k)
    ELSE file_stem(filename) \o <<"_">> \o Decimal(k) \o <<".">> \o extension(filename)

\* a file that is in the download directory before the transfer finalises,
\* under one of the names the transfer could want
ExistingFile(k) ==
    /\ incoming.state = "open"
    /\ Cardinality({e \in made : e.owner = "env"}) < MaxExisting
    /\ LET p == Join(DownloadDir, TriedName(incoming.filename, k)) IN
       /\ ~ExistsIn(fs, p)
       /\ fs' = WriteFile(fs, p, OldData)
       /\ made' = made \cup {[owner |-> "env", path |-> Real(p), data |-> OldData]}
    /\ UNCHANGED <<sessionVars, frameVars, probeVars, raceVars, incoming, mgrVars, sendVars>>

ReceiverNext ==
    \/ \E f \in Strings(MaxName), size \in Sizes : StartMeta(f, size)
    \/ \E c \in Chunks : AppendChunk(c)
    \/ Finalize
    \/ AbortCleanup
    \/ \E k \in 0..(MaxExisting - 1) : ExistingFile(k)

ReceiverInit == InitWith(0)

ReceiverSpec == ReceiverInit /\ [][ReceiverNext]_vars

\* C23: at every point of a receive-side transfer received <= expected, no
\* byte beyond expected is in the temp file, whether the appends succeeded
\* or failed, and finalise succeeds only with received = expected.
C23_ReceivedWithinExpected ==
    incoming.state # "none" =>
        /\ incoming.received <= incoming.expected
        /\ Real(incoming.tmp_path) \in DOMAIN fs =>
                RunLen(fs[Real(incoming.tmp_path)]) <= incoming.expected
        /\ incoming.state = "finalized" => incoming.received = incoming.expected

\* C25: when a receive-side transfer has ended without a successful
\* finalise, its temp file is gone.
C25_NoTempOutlivesTransfer ==
    incoming.state \in {"failed", "aborted"} =>
        Real(incoming.tmp_path) \notin DOMAIN fs

(* ------------------- receive side: ChatManager ------------------------ *)
\* file names a peer announces: plain, with a forbidden character, absolute,
\* with a parent component, with a directory, empty
AnnouncedNames ==
    {<<"a">>, <<"a", "|">>, <<"/", "a">>, <<".", ".", "/", "a">>, <<".", ".">>,
     <<"a", "/", "a">>, <<>>}

\* the session of the chat is still there
Attached == \A i \in 1..Len(fed) : fed[i].type # "Disconnected"

\* Uuid::new_v4() of the next transfer
TransferIds == <<"u1", "u2", "u3", "u4">>
NewTransferId == TransferIds[Cardinality(DOMAIN active_transfers) + 1]

Toast(level, message, id) == [level |-> level, message |-> message, transfer |-> id]

\* ChatManager::update_transfer_progress on [active, toasts]
update_transfer_progress(st, transfer_id, bytes) ==
    IF transfer_id \in DOMAIN st.active
    THEN LET transfer == st.active[transfer_id] IN
         [active |-> [st.active EXCEPT ![transfer_id] =
                        [transfer EXCEPT !.received = bytes,
                                         !.status = IF bytes = transfer.size
                                                    THEN "Completed" ELSE @]],
          toasts |-> IF bytes = transfer.size
                     THEN Append(st.toasts, Toast("Success", "File received", transfer_id))
                     ELSE st.toasts]
    ELSE st

\* the event with the chat whose session emitted it
FromChat(chat_id, m) == m @@ [chat |-> chat_id]

\* MessageReceived(FileMeta { filename, size }): start_receiving_file, then
\* IncomingFileSync::new(download_dir.join(filename), size)
OnFileMetaFrom(chat_id, filename, size) ==
    /\ Attached
    /\ Len(fed) < MaxEvents
    /\ Cardinality(DOMAIN active_transfers) < MaxTransfers
    /\ fed' = Append(fed, FromChat(chat_id, MsgFileMeta(filename, size)))
    /\ LET transfer_id == NewTransferId
           file_path == Join(DownloadDir, filename)
           safe_filename == sanitize_filename(file_path[Len(file_path)])
           tmp_path == Parent(file_path) \o <<TmpName(transfer_id, safe_filename)>>
           info == Toast("Info", "Receiving file", transfer_id)
       IN  /\ active_transfers' =
                 (transfer_id :> [filename |-> filename, size |-> size,
                                  received |-> 0, status |-> "Pending"])
                 @@ active_transfers
           /\ IF HasFileName(file_path)
              THEN /\ fs' = WriteFile(fs, tmp_path, <<>>)
                   /\ made' = made \cup {[owner |-> transfer_id,
                                           path |-> Real(tmp_path), data |-> <<>>]}
                   /\ incoming_files' =
                         (transfer_id :> [tmp_path |-> tmp_path,
                                          filename |-> safe_filename,
                                          expected |-> size, received |-> 0])
                         @@ incoming_files
                   /\ toasts' = Append(toasts, info)
              ELSE \* Err("Invalid filename")
                   /\ toasts' = toasts \o
                         <<info, Toast("Error", "Failed to receive file", transfer_id)>>
                   /\ UNCHANGED <<fs, made, incoming_files>>
    /\ UNCHANGED <<sessionVars, frameVars, probeVars, raceVars, incoming, chat_files, sendVars>>

\* the handler in a ChatManager with one chat
OnFileMeta(filename, size) == OnFileMetaFrom(Host, filename, size)

\* MessageReceived(FileChunk { chunk, .. }): the first transfer (in the
\* order of the HashMap) that has an IncomingFileSync gets write_chunk
OnFileChunkFrom(chat_id, chunk) ==
    /\ Attached
    /\ Len(fed) < MaxEvents
    /\ fed' = Append(fed, FromChat(chat_id, MsgFileChunk(chunk, 0)))
    /\ IF DOMAIN active_transfers \cap DOMAIN incoming_files = {}
       THEN UNCHANGED <<fs, incoming_files, active_transfers, toasts>>
       ELSE \E transfer_id \in DOMAIN active_transfers \cap DOMAIN incoming_files :
            LET inc == incoming_files[transfer_id]
                bytes_received == inc.received + RunLen(chunk)
                st == update_transfer_progress(
                          [active |-> active_transfers, toasts |-> toasts],
                          transfer_id, bytes_received)
            IN  /\ fs' = WriteFile(fs, inc.tmp_path, Cat(fs[Real(inc.tmp_path)], chunk))
                /\ incoming_files' = [incoming_files EXCEPT
                                         ![transfer_id].received = bytes_received]
                /\ IF bytes_received > inc.expected
                   THEN /\ toasts' = Append(toasts,
                                 Toast("Error", "File transfer error", transfer_id))
                        /\ UNCHANGED active_transfers
                   ELSE /\ toasts' = st.toasts
                        /\ active_transfers' = st.active
    /\ UNCHANGED <<sessionVars, frameVars, probeVars, raceVars, incoming, made, chat_files, sendVars>>

OnFileChunk(chunk) == OnFileChunkFrom(Host, chunk)

\* the FileEnd handler for the transfers ids, one after the other, on
\* [active, toasts, chat]
RECURSIVE FinalizeAll(_, _)
FinalizeAll(st, ids) ==
    IF ids = {} THEN st
    ELSE LET transfer_id == CHOOSE id \in ids : TRUE
             inc == incoming_files[transfer_id]
             done == update_transfer_progress(st, transfer_id, inc.received)
             next ==
                IF inc.received # inc.expected
                THEN [st EXCEPT !.toasts = Append(@,
                          Toast("Error", "File transfer error", transfer_id))]
                ELSE [active |-> done.active,
                      toasts |-> done.toasts,
                      chat |-> IF transfer_id \in DOMAIN st.active
                               THEN Append(st.chat,
                                      [filename |-> st.active[transfer_id].filename,
                                       size |-> st.active[transfer_id].size,
                                       path |-> inc.tmp_path,
                                       transfer |-> transfer_id])
                               ELSE st.chat]
         IN  FinalizeAll(next, ids \ {transfer_id})

\* MessageReceived(FileEnd): every IncomingFileSync is removed and finalized
OnFileEndFrom(chat_id) ==
    /\ Attached
    /\ Len(fed) < MaxEvents
    /\ fed' = Append(fed, FromChat(chat_id, MsgFileEnd))
    /\ LET st == FinalizeAll([active |-> active_transfers, toasts |-> toasts,
                              chat |-> chat_files], DOMAIN incoming_files)
       IN  /\ active_transfers' = st.active
           /\ toasts' = st.toasts
           /\ chat_files' = st.chat
    /\ incoming_files' = <<>>
    /\ UNCHANGED <<sessionVars, frameVars, probeVars, raceVars, incoming, diskVars, sendVars>>

OnFileEnd == OnFileEndFrom(Host)

\* SessionEvent::Disconnected: a toast; sessions and session_events forget
\* the chat, the transfers are left as they are
OnDisconnected ==
    /\ Attached
    /\ Len(fed) < MaxEvents
    /\ fed # <<>>
    /\ fed' = Append(fed, [type |-> "Disconnected"])
    /\ toasts' = Append(toasts, Toast("Warning", "Connection lost", ""))
    /\ UNCHANGED <<sessionVars, frameVars, probeVars, raceVars, incoming, diskVars, sendVars>>
    /\ UNCHANGED <<incoming_files, active_transfers, chat_files>>

ManagerNext ==
    \/ \E f \in AnnouncedNames, size \in Sizes : OnFileMeta(f, size)
    \/ \E c \in Chunks : OnFileChunk(c)
    \/ OnFileEnd
    \/ OnDisconnected

ManagerInit == InitWith(0)

ManagerSpec == ManagerInit /\ [][ManagerNext]_vars

\* the transfer was finalised with received = expected
Finalised(id) == \E i \in 1..Len(chat_files) : chat_files[i].transfer = id

\* C24: the download directory never holds a file of a transfer that has
\* not finalised successfully: no temp file and no partly written file is
\* visible there, also when ChatManager drives the transfer.
C24_NoPartialFileInDestination ==
    \A e \in made :
        (e.owner # "env" /\ e.path \in DOMAIN fs /\ IsPrefix(DownloadDir, e.path))
            => Finalised(e.owner)

\* C27: every path the receiver creates for an announced file name lies in
\* the temp or the download directory, and its file name has none of the
\* characters / \ : * ? " < > |.
C27_PathsStayInside ==
    \A e \in made :
        e.owner # "env" =>
            /\ IsPrefix(DownloadDir, e.path) \/ IsPrefix(TempDir, e.path)
            /\ Len(e.path) > Len(CwdPath) + 1
            /\ \A i \in 1..Len(e.path[Len(e.path)]) :
                  e.path[Len(e.path)][i] \notin Forbidden

\* the chunks of the events handled, one after the other
RECURSIVE ChunksOf(_)
ChunksOf(evs) ==
    IF evs = <<>> THEN <<>>
    ELSE IF Head(evs).type = "FileChunk" THEN Cat(Head(evs).chunk, ChunksOf(Tail(evs)))
    ELSE ChunksOf(Tail(evs))

\* FileMeta, then chunks of the announced size in total, then FileEnd
WholeTransfer ==
    /\ Len(fed) >= 2
    /\ fed[1].type = "FileMeta"
    /\ fed[Len(fed)].type = "FileEnd"
    /\ \A i \in 2..(Len(fed) - 1) : fed[i].type = "FileChunk"
    /\ RunLen(ChunksOf(fed)) = fed[1].size

\* the number of times the transfer was reported as received
Reports(id) ==
    Cardinality({i \in 1..Len(toasts) :
                    toasts[i].transfer = id /\ toasts[i].message = "File received"})

\* C29: after FileMeta(name, size), chunks c1..cn of size bytes in total and
\* FileEnd, the finalised file holds c1 ++ ... ++ cn and the transfer was
\* reported completed exactly once.
C29_ContentAndOneReport ==
    WholeTransfer =>
        /\ Finalised("u1")
        /\ \A i \in 1..Len(chat_files) :
              /\ Real(chat_files[i].path) \in DOMAIN fs
              /\ fs[Real(chat_files[i].path)] = ChunksOf(fed)
        /\ active_transfers["u1"].status = "Completed"
        /\ Reports("u1") = 1

\* the files others had put into the download directory
Old == {e \in made : e.owner = "env"}

\* a name with _k inserted before its extension, or appended if it has none
Suffixed(N, k) ==
    IF k = 0 THEN N
    ELSE IF LastDot(N) > 1 /\ LastDot(N) < Len(N)
    THEN SubSeq(N, 1, LastDot(N) - 1) \o <<"_">> \o Decimal(k) \o
         SubSeq(N, LastDot(N), Len(N))
    ELSE N \o <<"_">> \o Decimal(k)

\* a file name proper: not empty, not "." or "..", no dot at its end
Regular(N) == N # <<>> /\ N # CurDir /\ N # ParentDir /\ N[Len(N)] # "."

SourceFiles ==
    {<<>>, Fill(1, 1), Fill(FILE_CHUNK_SIZE, 1),
     Cat(Fill(FILE_CHUNK_SIZE, 1), Fill(1, 2)),
     Cat(Cat(Fill(FILE_CHUNK_SIZE, 1), Fill(FILE_CHUNK_SIZE, 2)), Fill(3, 3)),
     Fill(MAX_PACKET_SIZE + 1, 4)}
SourceNames == {<<"a">>, <<"a", ".", "a">>, <<"a", "|">>}

\* a variant that reads into a buffer as large as the file
ReadSizes_Whole(left, reads) == {left}

\* what file.read(&mut buffer) may return with `left` bytes to go: the full
\* buffer or what is left, or fewer bytes
ReadSizes(left, reads) ==
    {IF left < FILE_CHUNK_SIZE THEN left ELSE FILE_CHUNK_SIZE} \cup
    (IF reads < MaxShortReads THEN {n \in {1, FILE_CHUNK_SIZE - 1} : n < left} ELSE {})

\* ChatManager::send_file up to the FileMeta: the size check, then the send
SendFileBegin(filename, file) ==
    /\ sendPc = "idle"
    /\ srcFile' = file
    /\ sendPos' = 0
    /\ IF RunLen(file) > MAX_PACKET_SIZE
       THEN \* "File is too large"
            sendPc' = "err" /\ sendOut' = sendOut
       ELSE /\ sendPc' = "chunks"
            /\ sendOut' = Append(sendOut, MsgFileMeta(filename, RunLen(file)))
    /\ UNCHANGED <<sessionVars, frameVars, probeVars, raceVars, diskVars, incoming, mgrVars>>

\* one turn of the loop: read n > 0 bytes, send them as FileChunk
SendFileChunk ==
    /\ sendPc = "chunks"
    /\ sendPos < RunLen(srcFile)
    /\ \E n \in ReadSizes(RunLen(srcFile) - sendPos, Len(sendOut) - 1) :
         /\ sendOut' = Append(sendOut,
                 MsgFileChunk(TakeBytes(DropBytes(srcFile, sendPos), n),
                              Len(sendOut) - 1))
         /\ sendPos' = sendPos + n
    /\ UNCHANGED <<sendPc, srcFile>>
    /\ UNCHANGED <<sessionVars, frameVars, probeVars, raceVars, diskVars, incoming, mgrVars>>

\* read returned 0: leave the loop, send FileEnd, return Ok
SendFileEnd ==
    /\ sendPc = "chunks"
    /\ sendPos = RunLen(srcFile)
    /\ sendOut' = Append(sendOut, MsgFileEnd)
    /\ sendPc' = "ok"
    /\ UNCHANGED <<srcFile, sendPos>>
    /\ UNCHANGED <<sessionVars, frameVars, probeVars, raceVars, diskVars, incoming, mgrVars>>

\* `?`: File::open, read or from_app_tx.send returned Err
SendFileErr ==
    /\ sendPc = "chunks"
    /\ sendPc' = "err"
    /\ UNCHANGED <<srcFile, sendPos, sendOut>>
    /\ UNCHANGED <<sessionVars, frameVars, probeVars, raceVars, diskVars, incoming, mgrVars>>

SenderNext ==
    \/ \E f \in SourceNames, file \in SourceFiles : SendFileBegin(f, file)
    \/ SendFileChunk
    \/ SendFileEnd
    \/ SendFileErr

SenderInit == InitWith(0)

SenderSpec == SenderInit /\ [][SenderNext]_vars

\* C28: the sender emits one FileMeta(name, size) first, then FileChunks of
\* 1 to 65 536 bytes each, in file order, then one FileEnd and nothing after
\* it; when the file was sent the chunk lengths add up to the announced size.
C28_MetaChunksEnd ==
    /\ sendOut # <<>> =>
            /\ sendOut[1].type = "FileMeta"
            /\ sendOut[1].size = RunLen(srcFile)
    /\ \A i \in 2..Len(sendOut) :
            \/ /\ sendOut[i].type = "FileChunk"
               /\ RunLen(sendOut[i].chunk) >= 1
               /\ RunLen(sendOut[i].chunk) <= 65536
            \/ /\ sendOut[i].type = "FileEnd"
               /\ i = Len(sendOut)
               /\ sendPc = "ok"
    /\ ChunksOf(sendOut) = TakeBytes(srcFile, sendPos)
    /\ sendPc = "ok" =>
            /\ Len(sendOut) >= 2
            /\ sendOut[Len(sendOut)].type = "FileEnd"
            /\ RunLen(ChunksOf(sendOut)) = sendOut[1].size
            /\ ChunksOf(sendOut) = srcFile

\* a file of two full buffers and a rest was sent in four chunks or more,
\* one of them a full buffer and one a single byte
C28_Witness ==
    /\ sendPc = "ok"
    /\ Len(sendOut) >= 6
    /\ RunLen(srcFile) = 2 * 65536 + 3
    /\ \E i \in 2..(Len(sendOut) - 1) : RunLen(sendOut[i].chunk) = 65536
    /\ \E i \in 2..(Len(sendOut) - 1) : RunLen(sendOut[i].chunk) = 1

UnknownPlain == [tag |-> "UNKNOWN", len |-> 7]

\* the frames session p wrote in the loop that were no command of its channel
Foreign(p) == IF pc[p] = "loop" \/ Len(sent[p]) > 3
              THEN Len(sent[p]) - 3 - Len(outbox[p])
              ELSE 0

\* a peer that is not the reference implementation: it holds the session key
\* and writes an encrypted frame whose plaintext has an unknown prefix
ForeignFrame(p) ==
    /\ pc[p] = "loop"
    /\ sockOpen[p]
    /\ Foreign(Host) + Foreign(Client) + cmdCount[Host] + cmdCount[Client] < MaxBurst
    /\ \E nonce \in Nonces : Transmit(p, encrypt(aesKey[p], nonce, UnknownPlain))
    /\ UNCHANGED <<pc, connected, sockOpen, events, rcvd>>
    /\ UNCHANGED <<sessVars, histVars, netVars, appVars>>
    /\ UNCHANGED <<chanVars, cmdHist, malformed, timeVars, idleVars>>

\* the Ping events of session s and those ChatManager has handled
PingEvents(s) == SelectSeq(events[s], LAMBDA e : e = EvMessageReceived(MsgPing))
PingsHandled(s) == SelectSeq(fed, LAMBDA e : e = [type |-> "Ping", chat |-> s])

\* ChatManager::handle_session_event, MessageReceived(Ping): trace! only
OnPing(s) ==
    /\ appAlive[s]
    /\ Len(PingsHandled(s)) < Len(PingEvents(s))
    /\ fed' = Append(fed, [type |-> "Ping", chat |-> s])
    /\ UNCHANGED <<sessionVars, frameVars, probeVars, raceVars, incoming, diskVars, sendVars>>
    /\ UNCHANGED <<incoming_files, active_transfers, toasts, chat_files>>

\* the sessions on a reliable stream with a peer that may send frames of an
\* unknown type, and ChatManager handling the Ping events
AnomalyNext ==
    \/ Bind
    \/ Connect
    \/ Accept
    \/ \E s \in Sessions : SessionStep(s)
    \/ \E s \in Sessions, m \in Commands :
            AppSendUpTo(s, m, MaxBurst - Foreign(Host) - Foreign(Client))
    \/ \E s \in Sessions : ForeignFrame(s)
    \/ \E s \in Sessions : OnPing(s)
    \/ \E s \in Sessions : DeleteChat(s)

AnomalyInit == InitWith(0)

AnomalySpec == AnomalyInit /\ [][AnomalyNext]_vars

\* the step in which the message loop of s takes a frame that decrypts under
\* its key to a plaintext of the given kind
TakesFrame(s) ==
    /\ pc[s] = "loop"
    /\ wire[s] # <<>>
    /\ rcvd'[s] # rcvd[s]
    /\ decrypt(aesKey[s], Head(wire[s])) # NoBytes
TakenMsg(s) == from_plain_bytes(decrypt(aesKey[s], Head(wire[s])))
TakesPing(s) == TakesFrame(s) /\ TakenMsg(s) = MsgPing
TakesUnknown(s) == TakesFrame(s) /\ TakenMsg(s) = NoMsg
\* the step adds neither Error nor Disconnected and keeps the session key
Quiet(s) ==
    /\ aesKey'[s] = aesKey[s]
    /\ aesKey[s] # NoKey
    /\ \/ events'[s] = events[s]
       \/ events'[s] = Append(events[s], EvMessageReceived(MsgPing))
\* the loop goes on: socket open, queued commands and frames still there
GoesOn(s) ==
    /\ pc'[s] = "loop"
    /\ sockOpen'[s]
    /\ cmds'[s] = cmds[s]
    /\ wire'[s] = Tail(wire[s])
\* ChatManager handles a Ping event in this step
HandlesPing == fed' # fed /\ fed'[Len(fed')].type = "Ping"
ManagerUntouched ==
    UNCHANGED <<incoming_files, active_transfers, toasts, chat_files, incoming, fs>>

TransferSendFileBegin(filename, file) ==
    /\ sendPc = "idle"
    /\ srcFile' = file
    /\ sendPos' = 0
    /\ sendPc' = "chunks"
    /\ sendOut' = Append(sendOut, MsgFileMeta(filename, RunLen(file)))
    /\ UNCHANGED <<sessionVars, frameVars, probeVars, raceVars, diskVars, incoming, mgrVars>>

SendPathsNext ==
    \/ \E f \in SourceNames, file \in SourceFiles : SendFileBegin(f, file)
    \/ \E f \in SourceNames, file \in SourceFiles : TransferSendFileBegin(f, file)
    \/ SendFileChunk
    \/ SendFileEnd
    \/ SendFileErr

SendPathsInit == InitWith(0)

SendPathsSpec == SendPathsInit /\ [][SendPathsNext]_vars

\* C33: a file larger than the maximum is rejected with an error before any
\* FileMeta, FileChunk or FileEnd of it is emitted, on every send path.
C33_OversizeRejectedOnEveryPath ==
    RunLen(srcFile) > MAX_PACKET_SIZE =>
        /\ sendOut = <<>>
        /\ sendPc = "err"

(* --------------------- the decoder on raw byte strings ------------------ *)
\* the ASCII tags, in the order from_plain_bytes tries them
KnownTags == <<"VERSION:", "EPHEMERAL_KEY:", "TEXT:", "FILE_META|", "FILE_CHUNK:", "FILE_END:", "PING", "TYPING_START", "TYPING_STOP">>
\* those compared with `==`, the others with starts_with
ExactTags == {"FILE_END:", "PING", "TYPING_START", "TYPING_STOP"}

TagChars(t) ==
    CASE t = "VERSION:" -> <<"V", "E", "R", "S", "I", "O", "N", ":">>
      [] t = "EPHEMERAL_KEY:" -> <<"E", "P", "H", "E", "M", "E", "R", "A", "L", "_", "K", "E", "Y", ":">>
      [] t = "TEXT:" -> <<"T", "E", "X", "T", ":">>
      [] t = "FILE_META|" -> <<"F", "I", "L", "E", "_", "M", "E", "T", "A", "|">>
      [] t = "FILE_CHUNK:" -> <<"F", "I", "L", "E", "_", "C", "H", "U", "N", "K", ":">>
      [] t = "FILE_END:" -> <<"F", "I", "L", "E", "_", "E", "N", "D", ":">>
      [] t = "PING" -> <<"P", "I", "N", "G">>
      [] t = "TYPING_START" -> <<"T", "Y", "P", "I", "N", "G", "_", "S", "T", "A", "R", "T">>
      [] t = "TYPING_STOP" -> <<"T", "Y", "P", "I", "N", "G", "_", "S", "T", "O", "P">>

\* b.starts_with(tag)
StartsWith(raw, t) == IsPrefix(TagChars(t), raw)
\* &b[n..] behind the tag
Payload(raw, t) == SubSeq(raw, Len(TagChars(t)) + 1, Len(raw))

\* str::trim: white space at both ends is dropped
RECURSIVE TrimStart(_)
TrimStart(cs) == IF cs # <<>> /\ Head(cs) = " " THEN TrimStart(Tail(cs)) ELSE cs
RECURSIVE TrimEnd(_)
TrimEnd(cs) ==
    IF cs # <<>> /\ cs[Len(cs)] = " " THEN TrimEnd(SubSeq(cs, 1, Len(cs) - 1)) ELSE cs
Trim(cs) == TrimEnd(TrimStart(cs))

\* the if / else-if chain of from_plain_bytes on a byte string: which tag the
\* input starts with, and the payload behind it as the branch reads it
Scan(raw) ==
    IF StartsWith(raw, "VERSION:")
    THEN [tag |-> "VERSION:", len |-> Len(raw),
          version |-> ParseU64(Trim(Payload(raw, "VERSION:")))]
    ELSE IF StartsWith(raw, "EPHEMERAL_KEY:")
    THEN [tag |-> "EPHEMERAL_KEY:", len |-> Len(raw),
          public_key |-> [len |-> Len(raw) - 14, val |-> Payload(raw, "EPHEMERAL_KEY:")]]
    ELSE IF StartsWith(raw, "TEXT:")
    THEN [tag |-> "TEXT:", len |-> Len(raw), text |-> Payload(raw, "TEXT:")]
    ELSE IF StartsWith(raw, "FILE_META|")
    THEN [tag |-> "FILE_META|", len |-> Len(raw), body |-> Payload(raw, "FILE_META|")]
    ELSE IF StartsWith(raw, "FILE_CHUNK:")
    THEN [tag |-> "FILE_CHUNK:", len |-> Len(raw),
          chunk |-> FromBytes(Payload(raw, "FILE_CHUNK:"))]
    ELSE IF \E t \in ExactTags : StartsWith(raw, t)
    THEN [tag |-> CHOOSE t \in ExactTags : StartsWith(raw, t), len |-> Len(raw)]
    ELSE [tag |-> "UNKNOWN", len |-> Len(raw)]

\* the longest payload drawn
MaxPayload == 3
PayloadChars == {"1", "x", "|", " ", "+"}
Payloads34 ==
    UNION {[1..k -> PayloadChars] : k \in 0..MaxPayload} \cup
    {Decimal(255), Decimal(256), <<"x", "|", "2", "5", "6">>, <<"|", "|", "1">>}
\* heads that are no tag: a tag cut short, in lower case, behind a space, the
\* tag of the unit test, nothing
NoTags ==
    {SubSeq(TagChars(KnownTags[i]), 1, Len(TagChars(KnownTags[i])) - 1) :
        i \in 1..Len(KnownTags)} \cup
    {<<" ">> \o TagChars(KnownTags[i]) : i \in 1..Len(KnownTags)} \cup
    {<<"p", "i", "n", "g">>, <<"I", "N", "V", "A", "L", "I", "D", ":">>, <<>>}
RawInputs ==
    {TagChars(KnownTags[i]) \o p : i \in 1..Len(KnownTags), p \in Payloads34} \cup
    {h \o p : h \in NoTags, p \in Payloads34}

\* ProtocolMessage::from_plain_bytes(raw)
DecodeRaw(raw) ==
    /\ probe = NoProbe
    /\ probe' = [fn |-> "from_plain_bytes", raw |-> raw,
                 out |-> from_plain_bytes(Scan(raw))]
    /\ UNCHANGED <<sessionVars, frameVars, xferVars>>

DecoderNext == \E raw \in RawInputs : DecodeRaw(raw)

DecoderInit == InitWith(0)

DecoderSpec == DecoderInit /\ [][DecoderNext]_vars

\* the variant each tag stands for
VariantOf(t) ==
    CASE t = "VERSION:" -> "Version"
      [] t = "EPHEMERAL_KEY:" -> "EphemeralKey"
      [] t = "TEXT:" -> "Text"
      [] t = "FILE_META|" -> "FileMeta"
      [] t = "FILE_CHUNK:" -> "FileChunk"
      [] t = "FILE_END:" -> "FileEnd"
      [] t = "PING" -> "Ping"
      [] t = "TYPING_START" -> "TypingStart"
      [] t = "TYPING_STOP" -> "TypingStop"
TagSet == {KnownTags[i] : i \in 1..Len(KnownTags)}
\* a decimal number, with or without '+'
Numeric(cs) ==
    LET ds == IF cs # <<>> /\ Head(cs) = "+" THEN Tail(cs) ELSE cs IN
    ds # <<>> /\ \A i \in 1..Len(ds) : \E d \in 1..10 : DigitChars[d] = ds[i]
IsU8(cs) == Numeric(cs) /\ \E v \in 0..255 : DigitsValue(IF Head(cs) = "+" THEN Tail(cs) ELSE cs, 0) = v
\* the text behind the second '|' of a FILE_META| input
SizeField(raw) ==
    LET body == Payload(raw, "FILE_META|")
        bars == {i \in 1..Len(body) : body[i] = "|"}
    IN  IF bars = {} THEN <<>>
        ELSE SubSeq(body, (CHOOSE i \in bars : \A j \in bars : i <= j) + 1, Len(body))

\* C34: from_plain_bytes returns None for input that starts with no known
\* tag, for VERSION: with a value that is no u8, for FILE_META| with a size
\* that is no number, and for FILE_END:, PING, TYPING_START, TYPING_STOP
\* followed by more bytes; what it returns is the variant of the tag the input
\* starts with.
C34_DecoderRejectsMalformed ==
    probe.fn = "from_plain_bytes" =>
        LET raw == probe.raw
            out == probe.out
        IN  /\ (\A t \in TagSet : ~StartsWith(raw, t)) => out = NoMsg
            /\ (StartsWith(raw, "VERSION:") /\ ~IsU8(Trim(Payload(raw, "VERSION:"))))
                    => out = NoMsg
            /\ (StartsWith(raw, "FILE_META|") /\ ~Numeric(SizeField(raw)))
                    => out = NoMsg
            /\ \A t \in ExactTags :
                    (StartsWith(raw, t) /\ Len(raw) > Len(TagChars(t))) => out = NoMsg
            /\ out # NoMsg =>
                    \E t \in TagSet : StartsWith(raw, t) /\ out.type = VariantOf(t)

\* C34 witness: "PING" followed by one more byte was decoded to None
C34_Witness ==
    /\ probe.fn = "from_plain_bytes"
    /\ StartsWith(probe.raw, "PING")
    /\ Len(probe.raw) = 5
    /\ probe.out = NoMsg

(* ----------------------- the peer goes away ---------------------------- *)
\* the sessions on a reliable stream when a task may be dropped (the process
\* of the peer exits) and a chat may be deleted; a session task that can take
\* a step eventually takes it
HangupNext ==
    \/ Bind
    \/ Connect
    \/ Accept
    \/ \E s \in Sessions : SessionStep(s)
    \/ \E s \in Sessions, m \in Commands : AppSend(s, m)
    \/ \E s \in Sessions : Cancel(s)
    \/ \E s \in Sessions : DeleteChat(s)

HangupInit == InitWith(0)

HangupSpec ==
    /\ HangupInit
    /\ [][HangupNext]_vars
    /\ \A s \in Sessions : WF_vars(SessionStep(s))

\* the session is in its message loop and the peer's end of the socket is gone
PeerGone(s) == pc[s] = "loop" /\ ~sockOpen[Peer(s)]
\* nobody is there to take an event, or the task itself was dropped
Unheard(s) == cancelled[s] \/ ~appAlive[s]

\* C35: a session in the message loop whose peer closed the connection
\* eventually leaves the loop and terminates, with Disconnected emitted to the
\* application that still holds the chat.
C35_PeerGoneLeadsToExit ==
    \A s \in Sessions :
        PeerGone(s) ~> (pc[s] = "done" /\ ~sockOpen[s]
                        /\ (HasEvent(s, "Disconnected") \/ Unheard(s)))

\* C35 witness: the peer's task was dropped while the session was Ready; the
\* session left the loop and emitted Disconnected
C35_Witness ==
    \E s \in Sessions :
        /\ cancelled[Peer(s)]
        /\ IsReady(s)
        /\ ~Unheard(s)
        /\ pc[s] = "done"
        /\ HasEvent(s, "Disconnected")

(* ------------- recv_packet as a branch of the loop's select! ----------- *)
\* the session whose message loop reads the stream
Reader == Host

\* the command branch of select! completes while recv_packet is pending (in
\* read_exact, with none, some or all of the header or part of the payload
\* read): the command is taken and sent on the other half of the socket,
\* select! drops the recv_packet future with its header and buf, and the next
\* turn of the loop calls recv_packet anew
SelectCommandWins ==
    /\ rpc \in {"header", "payload"}
    /\ cmds[Reader] # <<>>
    /\ cmds' = [cmds EXCEPT ![Reader] = Tail(@)]
    /\ rpc' = "header"
    /\ rBuf' = <<>>
    /\ rNeed' = 0
    /\ UNCHANGED <<stream, calls, wRest, got>>
    /\ UNCHANGED <<pc, connected, wire, sockOpen, events, sent, rcvd>>
    /\ UNCHANGED <<sessVars, histVars, netVars, confirm, appAlive, cmdCount>>
    /\ UNCHANGED <<chanVars, cmdHist, malformed, timeVars, probeVars, xferVars>>

\* the peer's send_packet calls and the loop's recv_packet calls
SelectNext ==
    \/ \E payload \in Payloads : SendPacketBegin(payload)
    \/ SendPacketWrite
    \/ RecvPacketHeader
    \/ RecvPacketPayload
    \/ AppSend(Reader, MsgPing)
    \/ SelectCommandWins

SelectInit == InitWith(0)

SelectSpec == SelectInit /\ [][SelectNext]_vars

\* C36: whatever the interleaving of arriving bytes and commands, no byte
\* read is discarded (written = unread + read), recv_packet does not fail and
\* the payloads returned are the payloads sent, whole, in order, once each.
C36_SelectKeepsFrameBoundaries ==
    /\ RunLen(stream) + BytesRead = BytesWritten(calls)
    /\ rpc # "err"
    /\ Len(got) <= Len(Framed(calls))
    /\ \A i \in 1..Len(got) : got[i] = Framed(calls)[i]

(* ------------------- one ChatManager, several chats -------------------- *)
\* the chats of the ChatManager: one per session
Chats == Sessions
ChatNames == {<<"a">>, <<"a", ".", "a">>}

\* poll_session_events hands the events of every chat to the same handler
ChatsNext ==
    \/ \E c \in Chats, f \in ChatNames, size \in Sizes : OnFileMetaFrom(c, f, size)
    \/ \E c \in Chats, chunk \in Chunks : OnFileChunkFrom(c, chunk)
    \/ \E c \in Chats : OnFileEndFrom(c)

ChatsInit == InitWith(0)

ChatsSpec == ChatsInit /\ [][ChatsNext]_vars

\* the chat whose FileMeta opened the transfer: transfer ids are given out in
\* the order of the FileMeta events
MetaEvents == SelectSeq(fed, LAMBDA e : e.type = "FileMeta")
Opener(transfer_id) ==
    MetaEvents[CHOOSE k \in 1..Len(MetaEvents) : TransferIds[k] = transfer_id].chat
\* the transfers whose incoming file this step wrote to or finalised
Touched ==
    {id \in DOMAIN incoming_files :
        \/ id \notin DOMAIN incoming_files'
        \/ incoming_files'[id] # incoming_files[id]
        \/ fs'[Real(incoming_files[id].tmp_path)] # fs[Real(incoming_files[id].tmp_path)]}

\* C37: the step that handles a FileChunk or a FileEnd of one chat writes to
\* and finalises only transfers that a FileMeta of the same chat opened.
C37_EventsStayInTheirChat ==
    [][\A id \in Touched : Opener(id) = fed'[Len(fed')].chat]_vars

(* ------------- two tasks finalising into one directory ----------------- *)
RaceNames == {<<"a">>, <<"a", "|">>, <<"a", "/">>}

\* IncomingFile::start_meta in task t
TaskStartMeta(t, filename, size) ==
    /\ incomingOf[t].state = "none"
    /\ LET safe_filename == sanitize_filename(filename)
           tmp_path == TempDir \o <<TmpName(t, safe_filename)>>
       IN  /\ fs' = WriteFile(fs, tmp_path, <<>>)
           /\ incomingOf' = [incomingOf EXCEPT ![t] =
                    [NoIncoming EXCEPT !.state = "open", !.tmp_path = tmp_path,
                                       !.expected = size, !.filename = safe_filename]]
    /\ UNCHANGED <<sessionVars, frameVars, probeVars, made, incoming, mgrVars, sendVars>>

\* IncomingFile::append_chunk in task t
TaskAppendChunk(t, chunk) ==
    /\ incomingOf[t].state = "open"
    /\ incomingOf[t].appends < MaxChunks
    /\ fs' = WriteFile(fs, incomingOf[t].tmp_path,
                       Cat(fs[Real(incomingOf[t].tmp_path)], chunk))
    /\ incomingOf' = [incomingOf EXCEPT
                        ![t].received = @ + RunLen(chunk),
                        ![t].appends = @ + 1,
                        ![t].failed = (incomingOf[t].received + RunLen(chunk)
                                            > incomingOf[t].expected)]
    /\ UNCHANGED <<sessionVars, frameVars, probeVars, made, incoming, mgrVars, sendVars>>

\* IncomingFile::finalize in task t up to the rename: the size check and the
\* loop `while final_path.exists()`, which has no await point in it
TaskFinalizeCheck(t) ==
    /\ incomingOf[t].state = "open"
    /\ IF incomingOf[t].received # incomingOf[t].expected
       THEN incomingOf' = [incomingOf EXCEPT ![t].state = "failed"]
       ELSE incomingOf' = [incomingOf EXCEPT
                ![t].state = "renaming",
                ![t].final_path = FreePath(fs, incomingOf[t].filename,
                                           Join(DownloadDir, incomingOf[t].filename), 1)]
    /\ UNCHANGED <<sessionVars, frameVars, probeVars, diskVars, incoming, mgrVars, sendVars>>

\* IncomingFile::finalize in task t: tokio::fs::rename(tmp_path, final_path)
\* completes; rename replaces a file that is there
TaskFinalizeRename(t) ==
    /\ incomingOf[t].state = "renaming"
    /\ fs' = RenameFile(fs, incomingOf[t].tmp_path, incomingOf[t].final_path)
    /\ incomingOf' = [incomingOf EXCEPT ![t].state = "finalized"]
    /\ UNCHANGED <<sessionVars, frameVars, probeVars, made, incoming, mgrVars, sendVars>>

RaceNext ==
    \/ \E t \in Receivers, f \in RaceNames, size \in Sizes : TaskStartMeta(t, f, size)
    \/ \E t \in Receivers, c \in Chunks : TaskAppendChunk(t, c)
    \/ \E t \in Receivers : TaskFinalizeCheck(t)
    \/ \E t \in Receivers : TaskFinalizeRename(t)

RaceInit == InitWith(0)

RaceSpec == RaceInit /\ [][RaceNext]_vars

\* C38: two transfers finalised at the same time end at two different paths,
\* and either file is there.
C38_ConcurrentFinalizeDistinct ==
    \A t1, t2 \in Receivers :
        (t1 # t2 /\ incomingOf[t1].state = "finalized"
                 /\ incomingOf[t2].state = "finalized") =>
            /\ incomingOf[t1].final_path # incomingOf[t2].final_path
            /\ Real(incomingOf[t1].final_path) \in DOMAIN fs
            /\ Real(incomingOf[t2].final_path) \in DOMAIN fs

\* ---------------------------------------------------------------------
\* the session handles ChatManager keeps (chat_manager.rs)
\* ---------------------------------------------------------------------
\* start_host and connect_to_host spawn the session task and insert a
\* SessionHandle (the sender of the command channel) into `sessions` and the
\* event receiver into `session_events`: cmdOpen[s] is the handle of chat s,
\* appAlive[s] its event receiver.  The spawned closure only logs an Err the
\* task returns.  poll_session_events drains every receiver with try_recv and
\* hands each event to handle_session_event; fed records the events handled.

\* the events of chat s that poll_session_events has handled so far
Polled(s) == SelectSeq(fed, LAMBDA h : h.type = "Event" /\ h.chat = s)

\* the events of chat s still waiting in its channel
Pending(s) == IF appAlive[s] THEN SubSeq(events[s], Len(Polled(s)) + 1, Len(events[s]))
              ELSE <<>>

\* the fed entries of the events a poll drains from chat s
Drain(s) == [i \in 1..Len(Pending(s)) |-> [type |-> "Event", chat |-> s, ev |-> Pending(s)[i].ev]]

\* handle_session_event removes the chat's handle and receiver on
\* Disconnected only; Error, Warning and the other events leave both
RemovesSession(s) == \E i \in 1..Len(Pending(s)) : Pending(s)[i].ev = "Disconnected"

PollSessionEvents ==
    /\ \E s \in Sessions : Pending(s) # <<>>
    /\ fed' = fed \o Drain(Host) \o Drain(Client)
    /\ cmdOpen' = [s \in Sessions |-> cmdOpen[s] /\ ~RemovesSession(s)]
    /\ appAlive' = [s \in Sessions |-> appAlive[s] /\ ~RemovesSession(s)]
    /\ UNCHANGED <<pc, connected, wire, sockOpen, events, cmds, confirm, cmdCount, sent, rcvd>>
    /\ UNCHANGED <<sessVars, histVars, netVars, branchOff, cmdHist, malformed, timeVars>>
    /\ UNCHANGED <<frameVars, probeVars, raceVars, incoming, diskVars, sendVars>>
    /\ UNCHANGED <<incoming_files, active_transfers, toasts, chat_files>>

HandlesNext ==
    \/ Bind
    \/ Connect
    \/ ConnectRefused
    \/ Accept
    \/ \E s \in Sessions : SessionStep(s)
    \/ \E s \in Sessions, m \in Commands : AppSend(s, m)
    \/ PollSessionEvents

HandlesInit == InitWith(0)

HandlesSpec == HandlesInit /\ [][HandlesNext]_vars

\* the session task of chat s has returned
Terminated(s) == pc[s] = "done"

\* every event the task of chat s sent has been polled
EventsDrained(s) == Len(Polled(s)) = Len(events[s])

\* `sessions` holds a SessionHandle for chat s
HoldsHandle(s) == cmdOpen[s]

\* C39: once the session task of a chat has terminated and
\* poll_session_events has drained its events, ChatManager holds no
\* SessionHandle for that chat.
C39_NoHandleAfterTermination ==
    \A s \in Sessions : (Terminated(s) /\ EventsDrained(s)) => ~HoldsHandle(s)

====
